---- MODULE Spec2Model ----
(***************************************************************************)
(* Model of the audio session engine of musicmcp/MusicMCP.py: the record  *)
(* and playback controllers with their worker threads, the file lock, the *)
(* working take curr.wav, the saved takes and the catalog (table) with    *)
(* its persisted document table.yaml.  Tool calls are made by client      *)
(* threads; every tool is split into the steps between which another      *)
(* thread can run.                                                         *)
(***************************************************************************)
EXTENDS Integers, Sequences, FiniteSets, TLC

\* ------------------------------------------------------------------ constants
CHUNK == 1024
RATE == 44100

\* Largest number of chunks one recording session captures in the model.
MaxChunks == 1

\* The client threads that issue tool calls.
Callers == {"c1", "c2"}

\* Thread objects: every threading.Thread(...) takes the first unused one.
RPool == <<"r1", "r2", "r3">>
PPool == <<"p1", "p2", "p3">>
RThreads == {RPool[i] : i \in 1..Len(RPool)}
PThreads == {PPool[i] : i \in 1..Len(PPool)}
Threads == RThreads \cup PThreads
NoThread == "None"

\* Identifiers handed to the tools.  CurrPath is the string CURR itself (the
\* value of the data://curr resource); ExtPath is the path of a .wav file that
\* exists outside the store; "a" is a plain name.
CurrPath == "/app/curr.wav"
ExtPath == "/music/take.wav"
SaveNames == {"a", ExtPath}
Keys == {"curr"} \cup SaveNames
Idents == Keys \cup {CurrPath}

Ops == {"startRecording", "stopRecording", "startPlaying", "stopPlaying",
        "saveCurr", "setAsCurr", "delete"}

\* The two resources: data://recordings and data://curr.
Resources == {"recordings", "curr"}

ArgsOf(o) ==
    IF o \in {"saveCurr", "delete"} THEN Keys
    ELSE IF o = "setAsCurr" THEN Idents
    ELSE {"-"}

\* ---------------------------------------------------------------------- files
NoFile == [kind |-> "none", size |-> 0, frames |-> 0, rate |-> 0]
\* A file opened for writing ("wb") and not yet closed: truncated, no header.
Partial == [kind |-> "partial", size |-> 0, frames |-> 0, rate |-> 0]
\* The file record() writes: mono PCM16 at RATE, k chunks of CHUNK frames,
\* behind the 44-byte header the wave module writes.
WavFile(k) ==
    [kind |-> "wav", size |-> 44 + 2 * (k * CHUNK), frames |-> k * CHUNK, rate |-> RATE]
\* The external file at ExtPath: stereo PCM16 at 22050 Hz, 1500 frames.
ExtFile == [kind |-> "wav", size |-> 44 + 4 * 1500, frames |-> 1500, rate |-> 22050]

Readable(f) == f.kind = "wav"

RECURSIVE GCD(_, _)
GCD(m, n) == IF n = 0 THEN m ELSE GCD(n, m % n)

\* n / d of Python (a correctly rounded float division of two small integers
\* is a function of the exact quotient): kept as the reduced fraction.
Div(n, d) == LET g == GCD(n, d) IN <<n \div g, d \div g>>

\* -------------------------------------------------------------------- catalog
NoEntry == [present |-> FALSE, size |-> 0, time |-> <<0, 1>>]
\* {"size": path.getsize(CURR), "time": wf.getnframes() / wf.getframerate()}
FileMeta(f) == [present |-> TRUE, size |-> f.size, time |-> Div(f.frames, f.rate)]

VARIABLES
    recording,      \* global recording
    playing,        \* global playing
    recordThread,   \* global recordThread
    playThread,     \* global playThread
    lock,           \* threading.Lock(): "free" or the thread holding it
    tstate,         \* thread object -> where it is
    frames,         \* record thread -> len(frames)
    ppos,           \* play thread -> chunks read so far
    plen,           \* play thread -> frame count read from the header at open
    table,          \* global table: key -> entry
    doc,            \* table.yaml as last dumped
    currFile,       \* curr.wav
    saved,          \* recordings/<name>.wav
    pc,             \* caller -> position in its tool call
    op,             \* caller -> tool it called last
    arg,            \* caller -> argument of that call
    ret,            \* caller -> outcome of that call
    jt,             \* caller -> thread it is joining
    src,            \* caller -> source file content held open by its copy
    svc             \* the process: "serving" once start() has returned,
                    \* "crashed" when it raised, before that the table.yaml
                    \* start() is going to find

vars == <<recording, playing, recordThread, playThread, lock, tstate, frames,
          ppos, plen, table, doc, currFile, saved, pc, op, arg, ret, jt, src, svc>>

ctl == <<recording, playing, recordThread, playThread>>
wrk == <<lock, tstate, frames, ppos, plen>>
store == <<table, doc, currFile, saved>>

\* The text yaml.dump writes for a table: one mapping item per key of the
\* dict, holding its size and time; and the dict yaml.load builds from it.
YamlDump(t) ==
    {[key |-> k, size |-> t[k].size, time |-> t[k].time] : k \in {x \in DOMAIN t : t[x].present}}
YamlLoad(d) ==
    [k \in Keys |->
        IF \E e \in d : e.key = k
        THEN LET e == CHOOSE x \in d : x.key = k IN
             [present |-> TRUE, size |-> e.size, time |-> e.time]
        ELSE NoEntry]

InTable(n) == n \in Keys /\ table[n].present

\* path.isfile(name) and path.splitext(name)[1] == ".wav"
IsWavPath(n) == n = ExtPath \/ (n = CurrPath /\ currFile.kind # "none")

\* --------------------------------------------------------------- thread pool
\* "dead": the target function returned; "failed": it raised.
Exited(ts, t) == ts[t] \in {"dead", "failed"}
Alive(ts, t) == ts[t] \notin {"none", "new"} /\ ~Exited(ts, t)

\* A thread object that neither runs nor is referenced is gone.
Collect(ts, rt, pt, j) ==
    [t \in Threads |->
        IF ~Alive(ts, t) /\ t # rt /\ t # pt /\ (\A c \in Callers : j[c] # t)
        THEN "none" ELSE ts[t]]

\* A thread object not yet started has no locals.
Clean(f, ts) == [t \in DOMAIN f |-> IF ts[t] \in {"none", "new"} THEN 0 ELSE f[t]]

HasFresh(ts, pool) == \E i \in 1..Len(pool) : ts[pool[i]] = "none"
Fresh(ts, pool) ==
    pool[CHOOSE i \in 1..Len(pool) :
            /\ ts[pool[i]] = "none"
            /\ \A k \in 1..Len(pool) : ts[pool[k]] = "none" => i <= k]

\* The thread state after: ts is the new tstate before collection.
SetThreads(ts, rt, pt, j) ==
    LET c == Collect(ts, rt, pt, j) IN
    /\ tstate' = c
    /\ recordThread' = rt
    /\ playThread' = pt
    /\ jt' = j
    /\ frames' = Clean(frames, c)
    /\ ppos' = Clean(ppos, c)
    /\ plen' = Clean(plen, c)

Init ==
    /\ recording = FALSE
    /\ playing = FALSE
    /\ recordThread = NoThread
    /\ playThread = NoThread
    /\ lock = "free"
    /\ tstate = [t \in Threads |-> "none"]
    /\ frames = [t \in RThreads |-> 0]
    /\ ppos = [t \in PThreads |-> 0]
    /\ plen = [t \in PThreads |-> 0]
    /\ table = [k \in Keys |-> NoEntry]
    /\ doc = [k \in Keys |-> NoEntry]
    /\ currFile = NoFile
    /\ saved = [n \in SaveNames |-> NoFile]
    /\ pc = [c \in Callers |-> "idle"]
    /\ op = [c \in Callers |-> "-"]
    /\ arg = [c \in Callers |-> "-"]
    /\ ret = [c \in Callers |-> "-"]
    /\ jt = [c \in Callers |-> NoThread]
    /\ src = [c \in Callers |-> NoFile]
    /\ svc = "serving"

\* ------------------------------------------------------------- caller frame
\* A client sends a tool call; the tool function has not run yet.
Call(c, o, a) ==
    /\ svc = "serving"
    /\ pc[c] \in {"idle", "done"}
    /\ op' = [op EXCEPT ![c] = o]
    /\ arg' = [arg EXCEPT ![c] = a]
    /\ pc' = [pc EXCEPT ![c] = "called"]
    /\ ret' = [ret EXCEPT ![c] = "pending"]
    /\ UNCHANGED <<ctl, wrk, store, jt, src, svc>>

Invoke(c) == \E o \in Ops \cup Resources : \E a \in ArgsOf(o) : Call(c, o, a)

At(c, o, p) == pc[c] = p /\ op[c] = o
Goto(c, p) == pc' = [pc EXCEPT ![c] = p] /\ UNCHANGED <<op, arg, ret, svc>>
Return(c, r) ==
    /\ pc' = [pc EXCEPT ![c] = "done"]
    /\ ret' = [ret EXCEPT ![c] = r]
    /\ UNCHANGED <<op, arg, svc>>

\* ------------------------------------------------------- RecordingController
\* SR_Check without the test of the recording flag.
SR_Check_NoGuard(c) ==
    /\ At(c, "startRecording", "called")
    /\ Goto(c, "sr_new")
    /\ UNCHANGED <<ctl, wrk, store, jt, src>>

\* startRecording: if recording: return False
SR_Check(c) ==
    /\ At(c, "startRecording", "called")
    /\ IF recording THEN Return(c, "False") ELSE Goto(c, "sr_new")
    /\ UNCHANGED <<ctl, wrk, store, jt, src>>

\* recordThread = threading.Thread(target=record)
SR_New(c) ==
    /\ At(c, "startRecording", "sr_new")
    /\ LET ts == Collect(tstate, NoThread, playThread, jt) IN
        /\ HasFresh(ts, RPool)
        /\ SetThreads([ts EXCEPT ![Fresh(ts, RPool)] = "new"], Fresh(ts, RPool), playThread, jt)
    /\ Goto(c, "sr_flag")
    /\ UNCHANGED <<recording, playing, lock, store, src>>

\* recording = True
SR_Flag(c) ==
    /\ At(c, "startRecording", "sr_flag")
    /\ recording' = TRUE
    /\ Goto(c, "sr_start")
    /\ UNCHANGED <<playing, recordThread, playThread, wrk, store, jt, src>>

\* recordThread.start(); return True.  Thread.start() raises RuntimeError on a
\* thread that was started before.
SR_Start(c) ==
    /\ At(c, "startRecording", "sr_start")
    /\ recordThread # NoThread
    /\ IF tstate[recordThread] = "new"
       THEN /\ tstate' = [tstate EXCEPT ![recordThread] = "check"]
            /\ Return(c, "True")
       ELSE /\ tstate' = tstate
            /\ Return(c, "Error")
    /\ UNCHANGED <<ctl, lock, frames, ppos, plen, store, jt, src>>

\* ST_Check without the test of the recording flag.
ST_Check_NoGuard(c) ==
    /\ At(c, "stopRecording", "called")
    /\ Goto(c, "st_flag")
    /\ UNCHANGED <<ctl, wrk, store, jt, src>>

\* stopRecording: if not recording: return False
ST_Check(c) ==
    /\ At(c, "stopRecording", "called")
    /\ IF ~recording THEN Return(c, "False") ELSE Goto(c, "st_flag")
    /\ UNCHANGED <<ctl, wrk, store, jt, src>>

\* recording = False
ST_Flag(c) ==
    /\ At(c, "stopRecording", "st_flag")
    /\ recording' = FALSE
    /\ Goto(c, "st_join")
    /\ UNCHANGED <<playing, recordThread, playThread, wrk, store, jt, src>>

\* recordThread.join(): the global is read once, then the caller waits for that
\* thread.  Thread.join() raises RuntimeError on a thread not yet started.
ST_Join(c) ==
    /\ At(c, "stopRecording", "st_join")
    /\ recordThread # NoThread
    /\ IF tstate[recordThread] = "new"
       THEN /\ Return(c, "Error")
            /\ jt' = jt
       ELSE /\ Goto(c, "st_wait")
            /\ jt' = [jt EXCEPT ![c] = recordThread]
    /\ UNCHANGED <<ctl, wrk, store, src>>

\* ST_Wait that does not wait: the call returns while the worker still runs.
ST_Wait_NoJoin(c) ==
    /\ At(c, "stopRecording", "st_wait")
    /\ SetThreads(tstate, recordThread, playThread, [jt EXCEPT ![c] = NoThread])
    /\ Return(c, "True")
    /\ UNCHANGED <<recording, playing, lock, store, src>>

\* join() returns once the thread has exited; return True
ST_Wait(c) ==
    /\ At(c, "stopRecording", "st_wait")
    /\ Exited(tstate, jt[c])
    /\ SetThreads(tstate, recordThread, playThread, [jt EXCEPT ![c] = NoThread])
    /\ Return(c, "True")
    /\ UNCHANGED <<recording, playing, lock, store, src>>

\* record(): while recording:
RecCheck(t) ==
    /\ tstate[t] = "check"
    /\ IF recording
       THEN /\ frames[t] < MaxChunks
            /\ tstate' = [tstate EXCEPT ![t] = "read"]
       ELSE tstate' = [tstate EXCEPT ![t] = "lock"]
    /\ UNCHANGED <<ctl, lock, frames, ppos, plen, store, pc, op, arg, ret, jt, src, svc>>

\* RecRead that drops the chunk when the flag was cleared during the read.
RecRead_DropOnStop(t) ==
    /\ tstate[t] = "read"
    /\ frames' = [frames EXCEPT ![t] = IF recording THEN @ + 1 ELSE @]
    /\ tstate' = [tstate EXCEPT ![t] = "check"]
    /\ UNCHANGED <<ctl, lock, ppos, plen, store, pc, op, arg, ret, jt, src, svc>>

\* data = recordStream.read(CHUNK); frames.append(data)
RecRead(t) ==
    /\ tstate[t] = "read"
    /\ frames' = [frames EXCEPT ![t] = @ + 1]
    /\ tstate' = [tstate EXCEPT ![t] = "check"]
    /\ UNCHANGED <<ctl, lock, ppos, plen, store, pc, op, arg, ret, jt, src, svc>>

\* with lock:
RecLock(t) ==
    /\ tstate[t] = "lock"
    /\ lock = "free"
    /\ lock' = t
    /\ tstate' = [tstate EXCEPT ![t] = "trunc"]
    /\ UNCHANGED <<ctl, frames, ppos, plen, store, pc, op, arg, ret, jt, src, svc>>

\* wf = wave.open(CURR, "wb")
RecTrunc(t) ==
    /\ tstate[t] = "trunc"
    /\ currFile' = Partial
    /\ tstate' = [tstate EXCEPT ![t] = "fill"]
    /\ UNCHANGED <<ctl, lock, frames, ppos, plen, table, doc, saved, pc, op, arg, ret, jt, src, svc>>

\* RecFill that leaves the last captured chunk out of the file.
RecFill_DropLast(t) ==
    /\ tstate[t] = "fill"
    /\ currFile' = WavFile(IF frames[t] > 0 THEN frames[t] - 1 ELSE 0)
    /\ tstate' = [tstate EXCEPT ![t] = "meta"]
    /\ UNCHANGED <<ctl, lock, frames, ppos, plen, table, doc, saved, pc, op, arg, ret, jt, src, svc>>

\* RecFill that writes no header when no chunk was captured.
RecFill_NoHeaderOnEmpty(t) ==
    /\ tstate[t] = "fill"
    /\ currFile' = IF frames[t] = 0 THEN Partial ELSE WavFile(frames[t])
    /\ tstate' = [tstate EXCEPT ![t] = "meta"]
    /\ UNCHANGED <<ctl, lock, frames, ppos, plen, table, doc, saved, pc, op, arg, ret, jt, src, svc>>

\* wf.writeframes(b"".join(frames)); wf.close()
RecFill(t) ==
    /\ tstate[t] = "fill"
    /\ currFile' = WavFile(frames[t])
    /\ tstate' = [tstate EXCEPT ![t] = "meta"]
    /\ UNCHANGED <<ctl, lock, frames, ppos, plen, table, doc, saved, pc, op, arg, ret, jt, src, svc>>

\* RecMeta on a table in which saveCurr and setAsCurr stored the curr dict
\* itself instead of a copy, and the entry is updated in place: every key that
\* holds the dict of curr shows the new values.
RecMeta_InPlace(t) ==
    /\ tstate[t] = "meta"
    /\ IF Readable(currFile)
       THEN /\ table' = [k \in Keys |->
                           IF k = "curr" \/ (table[k].present /\ table[k] = table["curr"])
                           THEN FileMeta(currFile) ELSE table[k]]
            /\ lock' = lock
            /\ SetThreads([tstate EXCEPT ![t] = "dump"], recordThread, playThread, jt)
       ELSE /\ table' = table
            /\ lock' = "free"
            /\ SetThreads([tstate EXCEPT ![t] = "failed"], recordThread, playThread, jt)
    /\ UNCHANGED <<recording, playing, doc, currFile, saved, pc, op, arg, ret, src, svc>>

\* writeTable("curr", None): table["curr"] = {size, time} read from CURR.
\* wave.open raises on a file that is not a complete WAV file; the exception
\* leaves the with block (the lock is released) and ends the thread.
RecMeta(t) ==
    /\ tstate[t] = "meta"
    /\ IF Readable(currFile)
       THEN /\ table' = [table EXCEPT !["curr"] = FileMeta(currFile)]
            /\ lock' = lock
            /\ SetThreads([tstate EXCEPT ![t] = "dump"], recordThread, playThread, jt)
       ELSE /\ table' = table
            /\ lock' = "free"
            /\ SetThreads([tstate EXCEPT ![t] = "failed"], recordThread, playThread, jt)
    /\ UNCHANGED <<recording, playing, doc, currFile, saved, pc, op, arg, ret, src, svc>>

\* RecDump that ends the thread without writing table.yaml.
RecDump_Skip(t) ==
    /\ tstate[t] = "dump"
    /\ doc' = doc
    /\ lock' = "free"
    /\ SetThreads([tstate EXCEPT ![t] = "dead"], recordThread, playThread, jt)
    /\ UNCHANGED <<recording, playing, table, currFile, saved, pc, op, arg, ret, src, svc>>

\* yaml.dump(table, open(TABLE, "w")); the with block and the thread end
RecDump(t) ==
    /\ tstate[t] = "dump"
    /\ doc' = table
    /\ lock' = "free"
    /\ SetThreads([tstate EXCEPT ![t] = "dead"], recordThread, playThread, jt)
    /\ UNCHANGED <<recording, playing, table, currFile, saved, pc, op, arg, ret, src, svc>>

\* SP_Check that also refuses while a recording session is active.
SP_Check_Exclusive(c) ==
    /\ At(c, "startPlaying", "called")
    /\ IF playing \/ recording THEN Return(c, "False") ELSE Goto(c, "sp_new")
    /\ UNCHANGED <<ctl, wrk, store, jt, src>>

\* -------------------------------------------------------- PlaybackController
\* startPlaying: if playing: return False
SP_Check(c) ==
    /\ At(c, "startPlaying", "called")
    /\ IF playing THEN Return(c, "False") ELSE Goto(c, "sp_new")
    /\ UNCHANGED <<ctl, wrk, store, jt, src>>

\* playThread = threading.Thread(target=play)
SP_New(c) ==
    /\ At(c, "startPlaying", "sp_new")
    /\ LET ts == Collect(tstate, recordThread, NoThread, jt) IN
        /\ HasFresh(ts, PPool)
        /\ SetThreads([ts EXCEPT ![Fresh(ts, PPool)] = "new"], recordThread, Fresh(ts, PPool), jt)
    /\ Goto(c, "sp_flag")
    /\ UNCHANGED <<recording, playing, lock, store, src>>

\* playing = True
SP_Flag(c) ==
    /\ At(c, "startPlaying", "sp_flag")
    /\ playing' = TRUE
    /\ Goto(c, "sp_start")
    /\ UNCHANGED <<recording, recordThread, playThread, wrk, store, jt, src>>

\* SP_Start that waits until the file lock is free before it starts the worker.
SP_Start_Locked(c) ==
    /\ At(c, "startPlaying", "sp_start")
    /\ playThread # NoThread
    /\ lock = "free"
    /\ IF tstate[playThread] = "new"
       THEN /\ tstate' = [tstate EXCEPT ![playThread] = "plock"]
            /\ Return(c, "True")
       ELSE /\ tstate' = tstate
            /\ Return(c, "Error")
    /\ UNCHANGED <<ctl, lock, frames, ppos, plen, store, jt, src>>

\* playThread.start(); return True
SP_Start(c) ==
    /\ At(c, "startPlaying", "sp_start")
    /\ playThread # NoThread
    /\ IF tstate[playThread] = "new"
       THEN /\ tstate' = [tstate EXCEPT ![playThread] = "plock"]
            /\ Return(c, "True")
       ELSE /\ tstate' = tstate
            /\ Return(c, "Error")
    /\ UNCHANGED <<ctl, lock, frames, ppos, plen, store, jt, src>>

\* stopPlaying: if not playing: return False
PT_Check(c) ==
    /\ At(c, "stopPlaying", "called")
    /\ IF ~playing THEN Return(c, "False") ELSE Goto(c, "pt_flag")
    /\ UNCHANGED <<ctl, wrk, store, jt, src>>

\* PT_Flag that leaves the playing flag set.
PT_Flag_Keep(c) ==
    /\ At(c, "stopPlaying", "pt_flag")
    /\ Goto(c, "pt_join")
    /\ UNCHANGED <<ctl, wrk, store, jt, src>>

\* playing = False
PT_Flag(c) ==
    /\ At(c, "stopPlaying", "pt_flag")
    /\ playing' = FALSE
    /\ Goto(c, "pt_join")
    /\ UNCHANGED <<recording, recordThread, playThread, wrk, store, jt, src>>

\* playThread.join()
PT_Join(c) ==
    /\ At(c, "stopPlaying", "pt_join")
    /\ playThread # NoThread
    /\ IF tstate[playThread] = "new"
       THEN /\ Return(c, "Error")
            /\ jt' = jt
       ELSE /\ Goto(c, "pt_wait")
            /\ jt' = [jt EXCEPT ![c] = playThread]
    /\ UNCHANGED <<ctl, wrk, store, src>>

\* join() returns once the thread has exited; return True
PT_Wait(c) ==
    /\ At(c, "stopPlaying", "pt_wait")
    /\ Exited(tstate, jt[c])
    /\ SetThreads(tstate, recordThread, playThread, [jt EXCEPT ![c] = NoThread])
    /\ Return(c, "True")
    /\ UNCHANGED <<recording, playing, lock, store, src>>

\* play(): with lock:
PlayLock(t) ==
    /\ tstate[t] = "plock"
    /\ lock = "free"
    /\ lock' = t
    /\ tstate' = [tstate EXCEPT ![t] = "open"]
    /\ UNCHANGED <<ctl, frames, ppos, plen, store, pc, op, arg, ret, jt, src, svc>>

\* PlayOpen that does not release the lock when wave.open raises.
PlayOpen_KeepLock(t) ==
    /\ tstate[t] = "open"
    /\ IF Readable(currFile)
       THEN /\ plen' = [plen EXCEPT ![t] = currFile.frames]
            /\ lock' = lock
            /\ tstate' = [tstate EXCEPT ![t] = "rd"]
            /\ UNCHANGED <<recordThread, playThread, jt, frames, ppos>>
       ELSE /\ lock' = lock
            /\ SetThreads([tstate EXCEPT ![t] = "failed"], recordThread, playThread, jt)
    /\ UNCHANGED <<recording, playing, store, pc, op, arg, ret, src, svc>>

\* wf = wave.open(CURR, "rb"): raises when CURR is missing or not a complete
\* WAV file; the exception releases the lock and ends the thread.
PlayOpen(t) ==
    /\ tstate[t] = "open"
    /\ IF Readable(currFile)
       THEN /\ plen' = [plen EXCEPT ![t] = currFile.frames]
            /\ lock' = lock
            /\ tstate' = [tstate EXCEPT ![t] = "rd"]
            /\ UNCHANGED <<recordThread, playThread, jt, frames, ppos>>
       ELSE /\ lock' = "free"
            /\ SetThreads([tstate EXCEPT ![t] = "failed"], recordThread, playThread, jt)
    /\ UNCHANGED <<recording, playing, store, pc, op, arg, ret, src, svc>>

\* The frames readframes can still deliver: the header's count, cut by what
\* the file on disk holds now.
Avail(t) ==
    IF Readable(currFile) /\ currFile.frames < plen[t] THEN currFile.frames
    ELSE IF Readable(currFile) THEN plen[t]
    ELSE 0

\* PlayRead that ends the thread without releasing the lock.
PlayRead_KeepLock(t) ==
    /\ tstate[t] = "rd"
    /\ IF ppos[t] * CHUNK < Avail(t) /\ playing
       THEN /\ ppos' = [ppos EXCEPT ![t] = @ + 1]
            /\ tstate' = [tstate EXCEPT ![t] = "wr"]
            /\ lock' = lock
            /\ UNCHANGED <<recordThread, playThread, jt, frames, plen>>
       ELSE /\ lock' = lock
            /\ SetThreads([tstate EXCEPT ![t] = "dead"], recordThread, playThread, jt)
    /\ UNCHANGED <<recording, playing, store, pc, op, arg, ret, src, svc>>

\* PlayRead that clears the playing flag when the playback ends.
PlayRead_ClearFlag(t) ==
    /\ tstate[t] = "rd"
    /\ IF ppos[t] * CHUNK < Avail(t) /\ playing
       THEN /\ ppos' = [ppos EXCEPT ![t] = @ + 1]
            /\ tstate' = [tstate EXCEPT ![t] = "wr"]
            /\ lock' = lock
            /\ playing' = playing
            /\ UNCHANGED <<recordThread, playThread, jt, frames, plen>>
       ELSE /\ lock' = "free"
            /\ playing' = FALSE
            /\ SetThreads([tstate EXCEPT ![t] = "dead"], recordThread, playThread, jt)
    /\ UNCHANGED <<recording, store, pc, op, arg, ret, src, svc>>

\* data = wf.readframes(CHUNK); while data and playing: ... else wf.close(),
\* the with block and the thread end
PlayRead(t) ==
    /\ tstate[t] = "rd"
    /\ IF ppos[t] * CHUNK < Avail(t) /\ playing
       THEN /\ ppos' = [ppos EXCEPT ![t] = @ + 1]
            /\ tstate' = [tstate EXCEPT ![t] = "wr"]
            /\ lock' = lock
            /\ UNCHANGED <<recordThread, playThread, jt, frames, plen>>
       ELSE /\ lock' = "free"
            /\ SetThreads([tstate EXCEPT ![t] = "dead"], recordThread, playThread, jt)
    /\ UNCHANGED <<recording, playing, store, pc, op, arg, ret, src, svc>>

\* playStream.write(data)
PlayWrite(t) ==
    /\ tstate[t] = "wr"
    /\ tstate' = [tstate EXCEPT ![t] = "rd"]
    /\ UNCHANGED <<ctl, lock, frames, ppos, plen, store, pc, op, arg, ret, jt, src, svc>>

\* ----------------------------------------------------- TakeCatalog, TakeStore
\* writeTable's last line: yaml.dump(table, open(TABLE, "w")); then return True
Dump(c, o, p) ==
    /\ At(c, o, p)
    /\ doc' = table
    /\ Return(c, "True")
    /\ UNCHANGED <<ctl, wrk, table, currFile, saved, jt, src>>

\* SV_Check without the test for a name that is taken.
SV_Check_NoCollision(c) ==
    /\ At(c, "saveCurr", "called")
    /\ IF ~InTable("curr") \/ arg[c] = "curr"
       THEN Return(c, "False")
       ELSE Goto(c, "sv_copy")
    /\ UNCHANGED <<ctl, wrk, store, jt, src>>

\* saveCurr: if "curr" not in table or name in table: return False
SV_Check(c) ==
    /\ At(c, "saveCurr", "called")
    /\ IF ~InTable("curr") \/ InTable(arg[c])
       THEN Return(c, "False")
       ELSE Goto(c, "sv_copy")
    /\ UNCHANGED <<ctl, wrk, store, jt, src>>

\* SV_Copy that goes on to the catalog without writing the asset file.
SV_Copy_Skip(c) ==
    /\ At(c, "saveCurr", "sv_copy")
    /\ Goto(c, "sv_table")
    /\ UNCHANGED <<ctl, wrk, store, jt, src>>

\* shutil.copy(CURR, path.join(SAVED, name + ".wav")): raises when CURR is
\* missing, else writes what CURR holds at that moment
SV_Copy(c) ==
    /\ At(c, "saveCurr", "sv_copy")
    /\ IF currFile.kind = "none"
       THEN /\ saved' = saved
            /\ Return(c, "Error")
       ELSE /\ saved' = [saved EXCEPT ![arg[c]] = currFile]
            /\ Goto(c, "sv_table")
    /\ UNCHANGED <<ctl, wrk, table, doc, currFile, jt, src>>

\* SV_Table that moves the curr entry to the name instead of copying it.
SV_Table_Move(c) ==
    /\ At(c, "saveCurr", "sv_table")
    /\ IF InTable("curr")
       THEN /\ table' = [table EXCEPT ![arg[c]] = table["curr"], !["curr"] = NoEntry]
            /\ Goto(c, "sv_dump")
       ELSE /\ table' = table
            /\ Return(c, "Error")
    /\ UNCHANGED <<ctl, wrk, doc, currFile, saved, jt, src>>

\* writeTable(name, dict(table["curr"])): table[id] = val
SV_Table(c) ==
    /\ At(c, "saveCurr", "sv_table")
    /\ IF InTable("curr")
       THEN /\ table' = [table EXCEPT ![arg[c]] = table["curr"]]
            /\ Goto(c, "sv_dump")
       ELSE /\ table' = table
            /\ Return(c, "Error")
    /\ UNCHANGED <<ctl, wrk, doc, currFile, saved, jt, src>>

SV_Dump(c) == Dump(c, "saveCurr", "sv_dump")

\* SC_Check that looks the unknown name up in the table (KeyError) instead of
\* returning False.
SC_Check_KeyError(c) ==
    /\ At(c, "setAsCurr", "called")
    /\ IF IsWavPath(arg[c]) THEN Goto(c, "sc_popen")
       ELSE IF ~InTable(arg[c]) THEN Return(c, "Error")
       ELSE Goto(c, "sc_nopen")
    /\ UNCHANGED <<ctl, wrk, store, jt, src>>

\* setAsCurr: the path test, then if name not in table: return False
SC_Check(c) ==
    /\ At(c, "setAsCurr", "called")
    /\ IF IsWavPath(arg[c]) THEN Goto(c, "sc_popen")
       ELSE IF ~InTable(arg[c]) THEN Return(c, "False")
       ELSE Goto(c, "sc_nopen")
    /\ UNCHANGED <<ctl, wrk, store, jt, src>>

\* shutil.copy(name, CURR), first part: raises SameFileError when name is CURR
\* itself, else opens the source and truncates CURR
SC_PathOpen(c) ==
    /\ At(c, "setAsCurr", "sc_popen")
    /\ IF arg[c] = CurrPath
       THEN /\ Return(c, "Error")
            /\ UNCHANGED <<currFile, src>>
       ELSE /\ currFile' = Partial
            /\ src' = [src EXCEPT ![c] = ExtFile]
            /\ Goto(c, "sc_pfill")
    /\ UNCHANGED <<ctl, wrk, table, doc, saved, jt>>

\* shutil.copy, second part: the content is written to CURR
SC_Fill(c, p, q) ==
    /\ At(c, "setAsCurr", p)
    /\ currFile' = src[c]
    /\ src' = [src EXCEPT ![c] = NoFile]
    /\ Goto(c, q)
    /\ UNCHANGED <<ctl, wrk, table, doc, saved, jt>>

SC_PathFill(c) == SC_Fill(c, "sc_pfill", "sc_pmeta")

\* SC_PathMeta that divides the frame count by RATE, not by the file's rate.
SC_PathMeta_FixedRate(c) ==
    /\ At(c, "setAsCurr", "sc_pmeta")
    /\ IF Readable(currFile)
       THEN /\ table' = [table EXCEPT !["curr"] =
                  [present |-> TRUE, size |-> currFile.size,
                   time |-> Div(currFile.frames, RATE)]]
            /\ Goto(c, "sc_dump")
       ELSE /\ table' = table
            /\ Return(c, "Error")
    /\ UNCHANGED <<ctl, wrk, doc, currFile, saved, jt, src>>

\* writeTable("curr", None): table["curr"] is computed from CURR as it is now;
\* wave.open raises on a file that is not a complete WAV file
SC_PathMeta(c) ==
    /\ At(c, "setAsCurr", "sc_pmeta")
    /\ IF Readable(currFile)
       THEN /\ table' = [table EXCEPT !["curr"] = FileMeta(currFile)]
            /\ Goto(c, "sc_dump")
       ELSE /\ table' = table
            /\ Return(c, "Error")
    /\ UNCHANGED <<ctl, wrk, doc, currFile, saved, jt, src>>

\* SC_NameOpen that leaves curr.wav alone and goes on to the table update.
SC_NameOpen_NoCopy(c) ==
    /\ At(c, "setAsCurr", "sc_nopen")
    /\ IF arg[c] \notin SaveNames \/ saved[arg[c]].kind = "none"
       THEN Return(c, "Error")
       ELSE Goto(c, "sc_nmeta")
    /\ UNCHANGED <<ctl, wrk, store, jt, src>>

\* shutil.copy(path.join(SAVED, name + ".wav"), CURR), first part: raises
\* FileNotFoundError when the store has no such file (no name is stored as
\* curr.wav), else opens the source and truncates CURR
SC_NameOpen(c) ==
    /\ At(c, "setAsCurr", "sc_nopen")
    /\ IF arg[c] \notin SaveNames \/ saved[arg[c]].kind = "none"
       THEN /\ Return(c, "Error")
            /\ UNCHANGED <<currFile, src>>
       ELSE /\ currFile' = Partial
            /\ src' = [src EXCEPT ![c] = saved[arg[c]]]
            /\ Goto(c, "sc_nfill")
    /\ UNCHANGED <<ctl, wrk, table, doc, saved, jt>>

SC_NameFill(c) == SC_Fill(c, "sc_nfill", "sc_nmeta")

\* SC_NameMeta that leaves the curr entry as it was.
SC_NameMeta_Skip(c) ==
    /\ At(c, "setAsCurr", "sc_nmeta")
    /\ IF InTable(arg[c])
       THEN Goto(c, "sc_dump")
       ELSE Return(c, "Error")
    /\ UNCHANGED <<ctl, wrk, store, jt, src>>

\* writeTable("curr", dict(table[name])): KeyError when name has left the table
SC_NameMeta(c) ==
    /\ At(c, "setAsCurr", "sc_nmeta")
    /\ IF InTable(arg[c])
       THEN /\ table' = [table EXCEPT !["curr"] = table[arg[c]]]
            /\ Goto(c, "sc_dump")
       ELSE /\ table' = table
            /\ Return(c, "Error")
    /\ UNCHANGED <<ctl, wrk, doc, currFile, saved, jt, src>>

SC_Dump(c) == Dump(c, "setAsCurr", "sc_dump")

\* DL_Check without the test for the reserved name.
DL_Check_NoCurr(c) ==
    /\ At(c, "delete", "called")
    /\ IF ~InTable(arg[c])
       THEN Return(c, "False")
       ELSE Goto(c, "dl_remove")
    /\ UNCHANGED <<ctl, wrk, store, jt, src>>

\* delete: if name == "curr" or name not in table: return False
DL_Check(c) ==
    /\ At(c, "delete", "called")
    /\ IF arg[c] = "curr" \/ ~InTable(arg[c])
       THEN Return(c, "False")
       ELSE Goto(c, "dl_remove")
    /\ UNCHANGED <<ctl, wrk, store, jt, src>>

\* DL_Remove that leaves the asset file in the store.
DL_Remove_Keep(c) ==
    /\ At(c, "delete", "dl_remove")
    /\ Goto(c, "dl_table")
    /\ UNCHANGED <<ctl, wrk, store, jt, src>>

\* os.remove(path.join(SAVED, name + ".wav")): raises when the file is gone
DL_Remove(c) ==
    /\ At(c, "delete", "dl_remove")
    /\ IF saved[arg[c]].kind = "none"
       THEN /\ saved' = saved
            /\ Return(c, "Error")
       ELSE /\ saved' = [saved EXCEPT ![arg[c]] = NoFile]
            /\ Goto(c, "dl_table")
    /\ UNCHANGED <<ctl, wrk, table, doc, currFile, jt, src>>

\* DL_Table that empties the whole catalog.
DL_Table_All(c) ==
    /\ At(c, "delete", "dl_table")
    /\ table' = [k \in Keys |-> NoEntry]
    /\ Goto(c, "dl_dump")
    /\ UNCHANGED <<ctl, wrk, doc, currFile, saved, jt, src>>

\* writeTable(name, None): del table[id]; KeyError when the key is gone
DL_Table(c) ==
    /\ At(c, "delete", "dl_table")
    /\ IF InTable(arg[c])
       THEN /\ table' = [table EXCEPT ![arg[c]] = NoEntry]
            /\ Goto(c, "dl_dump")
       ELSE /\ table' = table
            /\ Return(c, "Error")
    /\ UNCHANGED <<ctl, wrk, doc, currFile, saved, jt, src>>

DL_Dump(c) == Dump(c, "delete", "dl_dump")

\* ------------------------------------------------------------ specifications
\* ------------------------------------------------------------------ resources
\* recordings(): return table, and curr(): return CURR.  Neither touches a
\* thread, the lock or a file.
RS_Read(c) ==
    /\ pc[c] = "called"
    /\ op[c] \in Resources
    /\ Return(c, "Value")
    /\ UNCHANGED <<ctl, wrk, store, jt, src>>

CallerStep(c) ==
    \/ Invoke(c) \/ RS_Read(c)
    \/ SR_Check(c) \/ SR_New(c) \/ SR_Flag(c) \/ SR_Start(c)
    \/ ST_Check(c) \/ ST_Flag(c) \/ ST_Join(c) \/ ST_Wait(c)
    \/ SP_Check(c) \/ SP_New(c) \/ SP_Flag(c) \/ SP_Start(c)
    \/ PT_Check(c) \/ PT_Flag(c) \/ PT_Join(c) \/ PT_Wait(c)
    \/ SV_Check(c) \/ SV_Copy(c) \/ SV_Table(c) \/ SV_Dump(c)
    \/ SC_Check(c) \/ SC_PathOpen(c) \/ SC_PathFill(c) \/ SC_PathMeta(c)
    \/ SC_NameOpen(c) \/ SC_NameFill(c) \/ SC_NameMeta(c) \/ SC_Dump(c)
    \/ DL_Check(c) \/ DL_Remove(c) \/ DL_Table(c) \/ DL_Dump(c)

RecordStep(t) ==
    \/ RecCheck(t) \/ RecRead(t) \/ RecLock(t) \/ RecTrunc(t)
    \/ RecFill(t) \/ RecMeta(t) \/ RecDump(t)

PlayStep(t) ==
    \/ PlayLock(t) \/ PlayOpen(t) \/ PlayRead(t) \/ PlayWrite(t)

WorkerStep == (\E t \in RThreads : RecordStep(t)) \/ (\E t \in PThreads : PlayStep(t))

\* One client that sends each call after the answer to the one before (the
\* two test drivers), with the worker threads running beside it.
Next == CallerStep("c1") \/ WorkerStep
Spec == Init /\ [][Next]_vars

\* Independent clients whose calls run at the same time.
ConcNext == (\E c \in Callers : CallerStep(c)) \/ WorkerStep
ConcSpec == Init /\ [][ConcNext]_vars

\* ------------------------------------------------------ concurrent catalog use
\* The service restarted on what an earlier run left behind: one recorded
\* take of one chunk as curr.wav and its entry in table.yaml, which start()
\* loads.  No session is active.
RestartInit ==
    /\ recording = FALSE
    /\ playing = FALSE
    /\ recordThread = NoThread
    /\ playThread = NoThread
    /\ lock = "free"
    /\ tstate = [t \in Threads |-> "none"]
    /\ frames = [t \in RThreads |-> 0]
    /\ ppos = [t \in PThreads |-> 0]
    /\ plen = [t \in PThreads |-> 0]
    /\ table = [k \in Keys |-> IF k = "curr" THEN FileMeta(WavFile(1)) ELSE NoEntry]
    /\ doc = table
    /\ currFile = WavFile(1)
    /\ saved = [n \in SaveNames |-> NoFile]
    /\ pc = [c \in Callers |-> "idle"]
    /\ op = [c \in Callers |-> "-"]
    /\ arg = [c \in Callers |-> "-"]
    /\ ret = [c \in Callers |-> "-"]
    /\ jt = [c \in Callers |-> NoThread]
    /\ src = [c \in Callers |-> NoFile]
    /\ svc = "serving"

\* The catalog tools, called by independent clients at the same time.
CatalogOps == {"saveCurr", "setAsCurr", "delete"}
CatalogInvoke(c) == \E o \in CatalogOps : \E a \in ArgsOf(o) : Call(c, o, a)

CatalogStep(c) ==
    \/ CatalogInvoke(c)
    \/ SV_Check(c) \/ SV_Copy(c) \/ SV_Table(c) \/ SV_Dump(c)
    \/ SC_Check(c) \/ SC_PathOpen(c) \/ SC_PathFill(c) \/ SC_PathMeta(c)
    \/ SC_NameOpen(c) \/ SC_NameFill(c) \/ SC_NameMeta(c) \/ SC_Dump(c)
    \/ DL_Check(c) \/ DL_Remove(c) \/ DL_Table(c) \/ DL_Dump(c)

CatalogNext == \E c \in Callers : CatalogStep(c)
CatalogSpec == RestartInit /\ [][CatalogNext]_vars

\* ----------------------------------------------- two clients start recording
\* Each client calls startRecording once, on the Idle controller the service
\* starts with (on an empty store or on the store of an earlier run); the
\* calls overlap in every possible way.  Nobody stops the session, so the
\* workers only read chunks.
StartRaceCall(c) == pc[c] = "idle" /\ Call(c, "startRecording", "-")

StartRaceNext ==
    \/ \E c \in Callers :
        \/ StartRaceCall(c)
        \/ SR_Check(c) \/ SR_New(c) \/ SR_Flag(c) \/ SR_Start(c)
    \/ \E t \in RThreads : RecCheck(t) \/ RecRead(t)
StartRaceSpec == (Init \/ RestartInit) /\ [][StartRaceNext]_vars

\* ------------------------------------------------- two identical calls at once
\* The tools whose answer depends on a test of the state.
CheckedOps == {"startRecording", "stopRecording", "startPlaying", "stopPlaying",
               "saveCurr", "delete"}

\* Both clients send the same call, when neither has a call in progress.
PairCall(o, a) ==
    /\ svc = "serving"
    /\ \A c \in Callers : pc[c] \in {"idle", "done"}
    /\ op' = [c \in Callers |-> o]
    /\ arg' = [c \in Callers |-> a]
    /\ pc' = [c \in Callers |-> "called"]
    /\ ret' = [c \in Callers |-> "pending"]
    /\ UNCHANGED <<ctl, wrk, store, jt, src, svc>>

\* The two catalog tools among them are run here, on the store of an earlier
\* run; with the sessions and their workers the state space is out of reach
\* (startRecording is run by StartRaceSpec).
PairOps == {"saveCurr", "delete"}
PairInvoke == \E o \in PairOps : \E a \in ArgsOf(o) : PairCall(o, a)

PairStep(c) ==
    \/ SV_Check(c) \/ SV_Copy(c) \/ SV_Table(c) \/ SV_Dump(c)
    \/ DL_Check(c) \/ DL_Remove(c) \/ DL_Table(c) \/ DL_Dump(c)

PairNext == PairInvoke \/ (\E c \in Callers : PairStep(c))
PairSpec == RestartInit /\ [][PairNext]_vars

\* ------------------------------------------------------------- one full take
\* The session of the test drivers: record, stop, save under a name, delete
\* that name, printing the two resources in between whenever it likes.  The
\* client sends each call after the answer to the one before.
ScriptCall(c) ==
    \/ recordThread = NoThread /\ Call(c, "startRecording", "-")
    \/ recording /\ Call(c, "stopRecording", "-")
    \/ /\ ~recording /\ table["curr"].present
       /\ \A n \in SaveNames : ~table[n].present
       /\ \E n \in SaveNames : Call(c, "saveCurr", n)
    \/ \E n \in SaveNames : table[n].present /\ Call(c, "delete", n)
    \/ \E r \in Resources : Call(c, r, "-")

ScriptStep(c) ==
    \/ ScriptCall(c) \/ RS_Read(c)
    \/ SR_Check(c) \/ SR_New(c) \/ SR_Flag(c) \/ SR_Start(c)
    \/ ST_Check(c) \/ ST_Flag(c) \/ ST_Join(c) \/ ST_Wait(c)
    \/ SV_Check(c) \/ SV_Copy(c) \/ SV_Table(c) \/ SV_Dump(c)
    \/ DL_Check(c) \/ DL_Remove(c) \/ DL_Table(c) \/ DL_Dump(c)

ScriptNext == ScriptStep("c1") \/ (\E t \in RThreads : RecordStep(t))
ScriptSpec == Init /\ [][ScriptNext]_vars

\* -------------------------------------------------------------------- startup
\* What start() can find at TABLE: no file, a file of length 0, a YAML mapping
\* written by an earlier run, or text that is no YAML.
BootDocs == {"missing", "empty", "mapping", "invalid"}

\* The process before start(): table = None (no entry), and on disk what an
\* earlier run left, described by table.yaml when that is a mapping.
StartInit ==
    /\ svc \in BootDocs
    /\ recording = FALSE
    /\ playing = FALSE
    /\ recordThread = NoThread
    /\ playThread = NoThread
    /\ lock = "free"
    /\ tstate = [t \in Threads |-> "none"]
    /\ frames = [t \in RThreads |-> 0]
    /\ ppos = [t \in PThreads |-> 0]
    /\ plen = [t \in PThreads |-> 0]
    /\ table = [k \in Keys |-> NoEntry]
    /\ doc = [k \in Keys |->
                IF svc = "mapping" /\ k = "curr" THEN FileMeta(WavFile(1)) ELSE NoEntry]
    /\ currFile = IF svc = "mapping" THEN WavFile(1) ELSE NoFile
    /\ saved = [n \in SaveNames |-> NoFile]
    /\ pc = [c \in Callers |-> "idle"]
    /\ op = [c \in Callers |-> "-"]
    /\ arg = [c \in Callers |-> "-"]
    /\ ret = [c \in Callers |-> "-"]
    /\ jt = [c \in Callers |-> NoThread]
    /\ src = [c \in Callers |-> NoFile]

\* start(): table = yaml.load(open(TABLE), yaml.Loader) or {}.  open raises
\* FileNotFoundError when there is no file and yaml.load raises on text that
\* is no YAML: the exception leaves start() and the main block, mcp.run is
\* never reached.  yaml.load of an empty file is None, replaced by {}.
Start ==
    /\ svc \in BootDocs
    /\ IF svc \in {"missing", "invalid"}
       THEN /\ svc' = "crashed"
            /\ table' = table
       ELSE /\ svc' = "serving"
            /\ table' = IF svc = "empty" THEN [k \in Keys |-> NoEntry] ELSE doc
    /\ UNCHANGED <<ctl, wrk, doc, currFile, saved, pc, op, arg, ret, jt, src>>

StartNext == Start \/ CallerStep("c1") \/ WorkerStep
StartSpec == StartInit /\ [][StartNext]_vars

\* ------------------------------------------------- device and storage failures
\* recordStream.read(CHUNK) raises (line 69): nothing in record() catches it,
\* the thread ends before it takes the lock or writes anything.
RecReadFail(t) ==
    /\ tstate[t] = "read"
    /\ SetThreads([tstate EXCEPT ![t] = "failed"], recordThread, playThread, jt)
    /\ UNCHANGED <<recording, playing, lock, store, pc, op, arg, ret, src, svc>>

\* wf.writeframes / wf.close raises (lines 76-77): the exception leaves the
\* with block, which releases the lock, and ends the thread; curr.wav stays
\* as the open left it and writeTable is not reached.
RecWriteFail(t) ==
    /\ tstate[t] = "fill"
    /\ lock' = "free"
    /\ SetThreads([tstate EXCEPT ![t] = "failed"], recordThread, playThread, jt)
    /\ UNCHANGED <<recording, playing, store, pc, op, arg, ret, src, svc>>

\* The steps of the catalog tools that copy or remove a file.
StorageSteps == {"sv_copy", "sc_popen", "sc_nopen", "dl_remove"}

\* shutil.copy (lines 141, 151, 156) or os.remove (line 166) raises before it
\* has changed a file: nothing in the tool catches it, the call ends with it.
StorageFail(c) ==
    /\ pc[c] \in StorageSteps
    /\ Return(c, "Error")
    /\ UNCHANGED <<ctl, wrk, store, jt, src>>

\* One client calling the recording and the catalog tools one after the
\* other, on a device and a disk that can fail.
FaultOps == Ops \ {"startPlaying", "stopPlaying"}
FaultInvoke(c) == \E o \in FaultOps : \E a \in ArgsOf(o) : Call(c, o, a)

FaultStep(c) ==
    \/ FaultInvoke(c) \/ StorageFail(c)
    \/ SR_Check(c) \/ SR_New(c) \/ SR_Flag(c) \/ SR_Start(c)
    \/ ST_Check(c) \/ ST_Flag(c) \/ ST_Join(c) \/ ST_Wait(c)
    \/ SV_Check(c) \/ SV_Copy(c) \/ SV_Table(c) \/ SV_Dump(c)
    \/ SC_Check(c) \/ SC_PathOpen(c) \/ SC_PathFill(c) \/ SC_PathMeta(c)
    \/ SC_NameOpen(c) \/ SC_NameFill(c) \/ SC_NameMeta(c) \/ SC_Dump(c)
    \/ DL_Check(c) \/ DL_Remove(c) \/ DL_Table(c) \/ DL_Dump(c)

FaultNext ==
    \/ FaultStep("c1")
    \/ \E t \in RThreads : RecordStep(t) \/ RecReadFail(t) \/ RecWriteFail(t)
FaultSpec == Init /\ [][FaultNext]_vars

\* ------------------------------------------ a recording client and another one
\* Client c1 runs recording sessions; client c2, at the same time, runs
\* playback sessions, saves and deletes one name and reads the resources.
DuoCalls(c) ==
    IF c = "c1"
    THEN {<<"startRecording", "-">>, <<"stopRecording", "-">>}
    ELSE {<<"startPlaying", "-">>, <<"stopPlaying", "-">>, <<"saveCurr", "a">>,
          <<"delete", "a">>} \cup {<<r, "-">> : r \in Resources}
DuoInvoke(c) == \E oa \in DuoCalls(c) : Call(c, oa[1], oa[2])

RecorderStep(c) ==
    \/ DuoInvoke(c)
    \/ SR_Check(c) \/ SR_New(c) \/ SR_Flag(c) \/ SR_Start(c)
    \/ ST_Check(c) \/ ST_Flag(c) \/ ST_Join(c) \/ ST_Wait(c)

OtherStep(c) ==
    \/ DuoInvoke(c) \/ RS_Read(c)
    \/ SP_Check(c) \/ SP_New(c) \/ SP_Flag(c) \/ SP_Start(c)
    \/ PT_Check(c) \/ PT_Flag(c) \/ PT_Join(c) \/ PT_Wait(c)
    \/ SV_Check(c) \/ SV_Copy(c) \/ SV_Table(c) \/ SV_Dump(c)
    \/ DL_Check(c) \/ DL_Remove(c) \/ DL_Table(c) \/ DL_Dump(c)

DuoNext == RecorderStep("c1") \/ OtherStep("c2") \/ WorkerStep
DuoSpec == Init /\ [][DuoNext]_vars

\* ------------------------------------------------ concurrent session control
\* Independent clients that start and stop recording sessions at the same
\* time.  (startPlaying and stopPlaying repeat the two tools line by line.)
SessionOps == {"startRecording", "stopRecording"}
SessionInvoke(c) == \E o \in SessionOps : Call(c, o, "-")

SessionStep(c) ==
    \/ SessionInvoke(c)
    \/ SR_Check(c) \/ SR_New(c) \/ SR_Flag(c) \/ SR_Start(c)
    \/ ST_Check(c) \/ ST_Flag(c) \/ ST_Join(c) \/ ST_Wait(c)

SessionNext ==
    \/ \E c \in Callers : SessionStep(c)
    \/ \E t \in RThreads : RecordStep(t)
SessionSpec == Init /\ [][SessionNext]_vars

\* ------------------------------------------------- playback during a recording
\* One client that starts playback only while its recording session is
\* active, and starts a recording only with no playback session active; each
\* call is sent after the answer to the one before.
OverlapCall(c) ==
    \/ ~recording /\ ~playing /\ Call(c, "startRecording", "-")
    \/ recording /\ Call(c, "stopRecording", "-")
    \/ recording /\ ~playing /\ Call(c, "startPlaying", "-")
    \/ playing /\ Call(c, "stopPlaying", "-")

OverlapStep(c) ==
    \/ OverlapCall(c)
    \/ SR_Check(c) \/ SR_New(c) \/ SR_Flag(c) \/ SR_Start(c)
    \/ ST_Check(c) \/ ST_Flag(c) \/ ST_Join(c) \/ ST_Wait(c)
    \/ SP_Check(c) \/ SP_New(c) \/ SP_Flag(c) \/ SP_Start(c)
    \/ PT_Check(c) \/ PT_Flag(c) \/ PT_Join(c) \/ PT_Wait(c)

OverlapNext == OverlapStep("c1") \/ WorkerStep
OverlapSpec == (Init \/ RestartInit) /\ [][OverlapNext]_vars

\* ------------------------------------------------------------ fair scheduling
\* The steps of the two clients of DuoSpec inside a call.
RecorderWork(c) ==
    \/ SR_Check(c) \/ SR_New(c) \/ SR_Flag(c) \/ SR_Start(c)
    \/ ST_Check(c) \/ ST_Flag(c) \/ ST_Join(c) \/ ST_Wait(c)

OtherWork(c) ==
    \/ RS_Read(c)
    \/ SP_Check(c) \/ SP_New(c) \/ SP_Flag(c) \/ SP_Start(c)
    \/ PT_Check(c) \/ PT_Flag(c) \/ PT_Join(c) \/ PT_Wait(c)
    \/ SV_Check(c) \/ SV_Copy(c) \/ SV_Table(c) \/ SV_Dump(c)
    \/ DL_Check(c) \/ DL_Remove(c) \/ DL_Table(c) \/ DL_Dump(c)

\* Every thread that can run does run: the interpreter switches threads after
\* a bounded interval, a device read or write returns, and a thread that waits
\* for the lock gets it at some release (strong fairness of the two
\* acquisitions).  Clients are free to stop calling.  With one recording
\* client and one playing client at most one worker of each kind is alive, so
\* fairness to the record workers is fairness to each of them.
DuoFairness ==
    /\ WF_vars(RecorderWork("c1"))
    /\ WF_vars(OtherWork("c2"))
    /\ WF_vars(\E t \in RThreads : RecordStep(t))
    /\ SF_vars(\E t \in RThreads : RecLock(t))
    /\ WF_vars(\E t \in PThreads : PlayStep(t))
    /\ SF_vars(\E t \in PThreads : PlayLock(t))

DuoFairSpec == DuoSpec /\ DuoFairness

\* ------------------------------------------------- the variant MusicServer.py
\* MusicServer.py has the globals thread (recordThread here), recording and
\* table, the files CURR, TABLE and SAVED/<name>.wav, and neither a lock nor a
\* playback session.  Its steps are written over the same variables; they say
\* nothing about the lock.
msWrk == <<tstate, frames, ppos, plen>>

\* startRecording: if recording: return False
MS_SR_Check(c) ==
    /\ At(c, "startRecording", "called")
    /\ IF recording THEN Return(c, "False") ELSE Goto(c, "sr_new")
    /\ UNCHANGED <<ctl, msWrk, store, jt, src>>

\* thread = threading.Thread(target=record)
MS_SR_New(c) ==
    /\ At(c, "startRecording", "sr_new")
    /\ LET ts == Collect(tstate, NoThread, playThread, jt) IN
        /\ HasFresh(ts, RPool)
        /\ SetThreads([ts EXCEPT ![Fresh(ts, RPool)] = "new"], Fresh(ts, RPool), playThread, jt)
    /\ Goto(c, "sr_flag")
    /\ UNCHANGED <<recording, playing, store, src>>

\* recording = True
MS_SR_Flag(c) ==
    /\ At(c, "startRecording", "sr_flag")
    /\ recording' = TRUE
    /\ Goto(c, "sr_start")
    /\ UNCHANGED <<playing, recordThread, playThread, msWrk, store, jt, src>>

\* thread.start(); return True
MS_SR_Start(c) ==
    /\ At(c, "startRecording", "sr_start")
    /\ recordThread # NoThread
    /\ IF tstate[recordThread] = "new"
       THEN /\ tstate' = [tstate EXCEPT ![recordThread] = "check"]
            /\ Return(c, "True")
       ELSE /\ tstate' = tstate
            /\ Return(c, "Error")
    /\ UNCHANGED <<ctl, frames, ppos, plen, store, jt, src>>

\* stopRecording: if not recording: return False
MS_ST_Check(c) ==
    /\ At(c, "stopRecording", "called")
    /\ IF ~recording THEN Return(c, "False") ELSE Goto(c, "st_flag")
    /\ UNCHANGED <<ctl, msWrk, store, jt, src>>

\* recording = False
MS_ST_Flag(c) ==
    /\ At(c, "stopRecording", "st_flag")
    /\ recording' = FALSE
    /\ Goto(c, "st_join")
    /\ UNCHANGED <<playing, recordThread, playThread, msWrk, store, jt, src>>

\* thread.join()
MS_ST_Join(c) ==
    /\ At(c, "stopRecording", "st_join")
    /\ recordThread # NoThread
    /\ IF tstate[recordThread] = "new"
       THEN /\ Return(c, "Error")
            /\ jt' = jt
       ELSE /\ Goto(c, "st_wait")
            /\ jt' = [jt EXCEPT ![c] = recordThread]
    /\ UNCHANGED <<ctl, msWrk, store, src>>

\* join() returns once the thread has exited; return True
MS_ST_Wait(c) ==
    /\ At(c, "stopRecording", "st_wait")
    /\ Exited(tstate, jt[c])
    /\ SetThreads(tstate, recordThread, playThread, [jt EXCEPT ![c] = NoThread])
    /\ Return(c, "True")
    /\ UNCHANGED <<recording, playing, store, src>>

\* record(): while recording:
MS_RecCheck(t) ==
    /\ tstate[t] = "check"
    /\ IF recording
       THEN /\ frames[t] < MaxChunks
            /\ tstate' = [tstate EXCEPT ![t] = "read"]
       ELSE tstate' = [tstate EXCEPT ![t] = "lock"]
    /\ UNCHANGED <<ctl, frames, ppos, plen, store, pc, op, arg, ret, jt, src, svc>>

\* data = stream.read(CHUNK); frames.append(data)
MS_RecRead(t) ==
    /\ tstate[t] = "read"
    /\ frames' = [frames EXCEPT ![t] = @ + 1]
    /\ tstate' = [tstate EXCEPT ![t] = "check"]
    /\ UNCHANGED <<ctl, ppos, plen, store, pc, op, arg, ret, jt, src, svc>>

\* The loop is left and the statement after it is reached; there is no lock
\* to wait for.
MS_RecLeave(t) ==
    /\ tstate[t] = "lock"
    /\ tstate' = [tstate EXCEPT ![t] = "trunc"]
    /\ UNCHANGED <<ctl, frames, ppos, plen, store, pc, op, arg, ret, jt, src, svc>>

\* wf = wave.open(CURR, "wb")
MS_RecTrunc(t) ==
    /\ tstate[t] = "trunc"
    /\ currFile' = Partial
    /\ tstate' = [tstate EXCEPT ![t] = "fill"]
    /\ UNCHANGED <<ctl, frames, ppos, plen, table, doc, saved, pc, op, arg, ret, jt, src, svc>>

\* wf.setnchannels(1) ... wf.writeframes(b"".join(frames)); wf.close()
MS_RecFill(t) ==
    /\ tstate[t] = "fill"
    /\ currFile' = WavFile(frames[t])
    /\ tstate' = [tstate EXCEPT ![t] = "meta"]
    /\ UNCHANGED <<ctl, frames, ppos, plen, table, doc, saved, pc, op, arg, ret, jt, src, svc>>

\* MS_RecMeta with the seconds computed from the number of chunks alone.
MS_RecMeta_NoChunk(t) ==
    /\ tstate[t] = "meta"
    /\ IF currFile.kind # "none"
       THEN /\ table' = [table EXCEPT !["curr"] =
                  [present |-> TRUE, size |-> currFile.size, time |-> Div(frames[t], RATE)]]
            /\ SetThreads([tstate EXCEPT ![t] = "dump"], recordThread, playThread, jt)
       ELSE /\ table' = table
            /\ SetThreads([tstate EXCEPT ![t] = "failed"], recordThread, playThread, jt)
    /\ UNCHANGED <<recording, playing, doc, currFile, saved, pc, op, arg, ret, src, svc>>

\* writeTable("curr", {"size": path.getsize(CURR),
\*                     "time": len(frames) * CHUNK / RATE}): table[id] = val.
\* getsize raises when there is no file.
MS_RecMeta(t) ==
    /\ tstate[t] = "meta"
    /\ IF currFile.kind # "none"
       THEN /\ table' = [table EXCEPT !["curr"] =
                  [present |-> TRUE, size |-> currFile.size,
                   time |-> Div(frames[t] * CHUNK, RATE)]]
            /\ SetThreads([tstate EXCEPT ![t] = "dump"], recordThread, playThread, jt)
       ELSE /\ table' = table
            /\ SetThreads([tstate EXCEPT ![t] = "failed"], recordThread, playThread, jt)
    /\ UNCHANGED <<recording, playing, doc, currFile, saved, pc, op, arg, ret, src, svc>>

\* yaml.dump(table, open(TABLE, "w")); the thread ends
MS_RecDump(t) ==
    /\ tstate[t] = "dump"
    /\ doc' = table
    /\ SetThreads([tstate EXCEPT ![t] = "dead"], recordThread, playThread, jt)
    /\ UNCHANGED <<recording, playing, table, currFile, saved, pc, op, arg, ret, src, svc>>

\* writeTable's last line: yaml.dump(table, open(TABLE, "w")); return True
MS_Dump(c, o, p) ==
    /\ At(c, o, p)
    /\ doc' = table
    /\ Return(c, "True")
    /\ UNCHANGED <<ctl, msWrk, table, currFile, saved, jt, src>>

\* saveCurr: if "curr" not in table or name in table: return False
MS_SV_Check(c) ==
    /\ At(c, "saveCurr", "called")
    /\ IF ~InTable("curr") \/ InTable(arg[c])
       THEN Return(c, "False")
       ELSE Goto(c, "sv_copy")
    /\ UNCHANGED <<ctl, msWrk, store, jt, src>>

\* shutil.copy(CURR, path.join(SAVED, name + ".wav"))
MS_SV_Copy(c) ==
    /\ At(c, "saveCurr", "sv_copy")
    /\ IF currFile.kind = "none"
       THEN /\ saved' = saved
            /\ Return(c, "Error")
       ELSE /\ saved' = [saved EXCEPT ![arg[c]] = currFile]
            /\ Goto(c, "sv_table")
    /\ UNCHANGED <<ctl, msWrk, table, doc, currFile, jt, src>>

\* writeTable(name, dict(table["curr"])): table[id] = val
MS_SV_Table(c) ==
    /\ At(c, "saveCurr", "sv_table")
    /\ IF InTable("curr")
       THEN /\ table' = [table EXCEPT ![arg[c]] = table["curr"]]
            /\ Goto(c, "sv_dump")
       ELSE /\ table' = table
            /\ Return(c, "Error")
    /\ UNCHANGED <<ctl, msWrk, doc, currFile, saved, jt, src>>

MS_SV_Dump(c) == MS_Dump(c, "saveCurr", "sv_dump")

\* setAsCurr: if name not in table: return False (there is no path test)
MS_SC_Check(c) ==
    /\ At(c, "setAsCurr", "called")
    /\ IF ~InTable(arg[c]) THEN Return(c, "False") ELSE Goto(c, "sc_nopen")
    /\ UNCHANGED <<ctl, msWrk, store, jt, src>>

\* shutil.copy(path.join(SAVED, name + ".wav"), CURR), first part: raises when
\* the store has no such file, else opens the source and truncates CURR
MS_SC_Open(c) ==
    /\ At(c, "setAsCurr", "sc_nopen")
    /\ IF arg[c] \notin SaveNames \/ saved[arg[c]].kind = "none"
       THEN /\ Return(c, "Error")
            /\ UNCHANGED <<currFile, src>>
       ELSE /\ currFile' = Partial
            /\ src' = [src EXCEPT ![c] = saved[arg[c]]]
            /\ Goto(c, "sc_nfill")
    /\ UNCHANGED <<ctl, msWrk, table, doc, saved, jt>>

\* shutil.copy, second part: the content is written to CURR
MS_SC_Fill(c) ==
    /\ At(c, "setAsCurr", "sc_nfill")
    /\ currFile' = src[c]
    /\ src' = [src EXCEPT ![c] = NoFile]
    /\ Goto(c, "sc_nmeta")
    /\ UNCHANGED <<ctl, msWrk, table, doc, saved, jt>>

\* writeTable("curr", dict(table[name])): table[id] = val
MS_SC_Meta(c) ==
    /\ At(c, "setAsCurr", "sc_nmeta")
    /\ IF InTable(arg[c])
       THEN /\ table' = [table EXCEPT !["curr"] = table[arg[c]]]
            /\ Goto(c, "sc_dump")
       ELSE /\ table' = table
            /\ Return(c, "Error")
    /\ UNCHANGED <<ctl, msWrk, doc, currFile, saved, jt, src>>

MS_SC_Dump(c) == MS_Dump(c, "setAsCurr", "sc_dump")

\* delete: if name == "curr" or name not in table: return False
MS_DL_Check(c) ==
    /\ At(c, "delete", "called")
    /\ IF arg[c] = "curr" \/ ~InTable(arg[c])
       THEN Return(c, "False")
       ELSE Goto(c, "dl_remove")
    /\ UNCHANGED <<ctl, msWrk, store, jt, src>>

\* os.remove(path.join(SAVED, name + ".wav"))
MS_DL_Remove(c) ==
    /\ At(c, "delete", "dl_remove")
    /\ IF saved[arg[c]].kind = "none"
       THEN /\ saved' = saved
            /\ Return(c, "Error")
       ELSE /\ saved' = [saved EXCEPT ![arg[c]] = NoFile]
            /\ Goto(c, "dl_table")
    /\ UNCHANGED <<ctl, msWrk, table, doc, currFile, jt, src>>

\* writeTable(name, None): del table[id]
MS_DL_Table(c) ==
    /\ At(c, "delete", "dl_table")
    /\ IF InTable(arg[c])
       THEN /\ table' = [table EXCEPT ![arg[c]] = NoEntry]
            /\ Goto(c, "dl_dump")
       ELSE /\ table' = table
            /\ Return(c, "Error")
    /\ UNCHANGED <<ctl, msWrk, doc, currFile, saved, jt, src>>

MS_DL_Dump(c) == MS_Dump(c, "delete", "dl_dump")

\* The tools both variants have.  A name is a key the table can hold;
\* setAsCurr is called with a key of the table or with a name that is no file.
CommonOps == {"startRecording", "stopRecording", "saveCurr", "setAsCurr", "delete"}
CommonCall(c) ==
    \/ \E o \in {"startRecording", "stopRecording"} : Call(c, o, "-")
    \/ \E o \in {"saveCurr", "delete"} : \E a \in Keys : Call(c, o, a)
    \/ \E a \in Keys : (InTable(a) \/ ~IsWavPath(a)) /\ Call(c, "setAsCurr", a)

MS_CallerStep(c) ==
    \/ CommonCall(c)
    \/ MS_SR_Check(c) \/ MS_SR_New(c) \/ MS_SR_Flag(c) \/ MS_SR_Start(c)
    \/ MS_ST_Check(c) \/ MS_ST_Flag(c) \/ MS_ST_Join(c) \/ MS_ST_Wait(c)
    \/ MS_SV_Check(c) \/ MS_SV_Copy(c) \/ MS_SV_Table(c) \/ MS_SV_Dump(c)
    \/ MS_SC_Check(c) \/ MS_SC_Open(c) \/ MS_SC_Fill(c) \/ MS_SC_Meta(c) \/ MS_SC_Dump(c)
    \/ MS_DL_Check(c) \/ MS_DL_Remove(c) \/ MS_DL_Table(c) \/ MS_DL_Dump(c)

MS_RecordStep(t) ==
    \/ MS_RecCheck(t) \/ MS_RecRead(t) \/ MS_RecLeave(t) \/ MS_RecTrunc(t)
    \/ MS_RecFill(t) \/ MS_RecMeta(t) \/ MS_RecDump(t)

\* MusicServer.py driven by one caller (MusicServerTest.py), its record thread
\* running beside it.
MS_Step == MS_CallerStep("c1") \/ (\E t \in RThreads : MS_RecordStep(t))
MS_Next == MS_Step /\ UNCHANGED lock
MusicServerSpec == Init /\ [][MS_Next]_vars

\* MusicMCP.py driven in the same way: one caller, the common tools, no
\* playback.
CommonStep(c) ==
    \/ CommonCall(c)
    \/ SR_Check(c) \/ SR_New(c) \/ SR_Flag(c) \/ SR_Start(c)
    \/ ST_Check(c) \/ ST_Flag(c) \/ ST_Join(c) \/ ST_Wait(c)
    \/ SV_Check(c) \/ SV_Copy(c) \/ SV_Table(c) \/ SV_Dump(c)
    \/ SC_Check(c) \/ SC_PathOpen(c) \/ SC_PathFill(c) \/ SC_PathMeta(c)
    \/ SC_NameOpen(c) \/ SC_NameFill(c) \/ SC_NameMeta(c) \/ SC_Dump(c)
    \/ DL_Check(c) \/ DL_Remove(c) \/ DL_Table(c) \/ DL_Dump(c)

CommonNext == CommonStep("c1") \/ (\E t \in RThreads : RecordStep(t))
CommonSpec == Init /\ [][CommonNext]_vars

\* --------------------------------------------------------------------- claims
\* Caller c runs the first statement of tool o (the state check).
CheckStep(c, o) == pc[c] = "called" /\ op[c] = o /\ pc'[c] # "called"
\* Caller c runs any statement of tool o.
CallStep(c, o) == pc[c] \notin {"idle", "done"} /\ op[c] = o /\ pc'[c] # pc[c]
\* The call o of caller c returns in this step.
ReturnStep(c, o) == CallStep(c, o) /\ pc'[c] = "done"
\* The step returns False and touches nothing but the caller's own frame.
FailsClean(c) ==
    pc'[c] = "done" /\ ret'[c] = "False" /\ UNCHANGED <<ctl, wrk, store>>
\* Caller c has got the answer r to its call o.
Answered(c, o, r) == pc[c] = "done" /\ op[c] = o /\ ret[c] = r

\* C1: startRecording called while the recording flag is set returns False in
\* its first step and changes nothing: the flag, the thread handles, every
\* thread, the lock, the catalog, its document and all files stay as they are.
C1_StartWhileRecording ==
    [][\A c \in Callers :
        CheckStep(c, "startRecording") /\ recording => FailsClean(c)]_vars

C1_Witness ==
    \E c \in Callers :
        /\ Answered(c, "startRecording", "False")
        /\ recording
        /\ recordThread # NoThread
        /\ Alive(tstate, recordThread)

\* C2: stopRecording called while the recording flag is clear returns False in
\* its first step (it waits for nothing) and writes neither file nor catalog.
C2_StopWhileIdle ==
    [][\A c \in Callers :
        CheckStep(c, "stopRecording") /\ ~recording => FailsClean(c)]_vars

\* An idle stop after an earlier session was stopped and its take committed.
C2_Witness ==
    \E c \in Callers :
        /\ Answered(c, "stopRecording", "False")
        /\ ~recording
        /\ recordThread # NoThread
        /\ tstate[recordThread] = "dead"
        /\ table["curr"].present

\* C3: the playback controller is Idle -> Playing -> Idle.  startPlaying fails
\* cleanly when playing and goes on when not; its answer is then True with the
\* flag set and the worker started.  stopPlaying fails cleanly when not playing
\* and goes on when playing; its answer is then True with the flag clear and no
\* playback worker alive, so the next startPlaying goes on again.
C3_PlaybackMachine ==
    [][\A c \in Callers :
        /\ CheckStep(c, "startPlaying") =>
              IF playing THEN FailsClean(c) ELSE pc'[c] = "sp_new"
        /\ ReturnStep(c, "startPlaying") /\ pc[c] # "called" =>
              /\ ret'[c] = "True"
              /\ playing'
              /\ tstate[playThread] = "new" /\ tstate'[playThread] = "plock"
        /\ CheckStep(c, "stopPlaying") =>
              IF ~playing THEN FailsClean(c) ELSE pc'[c] = "pt_flag"
        /\ ReturnStep(c, "stopPlaying") /\ pc[c] # "called" =>
              /\ ret'[c] = "True"
              /\ ~playing'
              /\ \A t \in PThreads : ~Alive(tstate', t)
    ]_vars

\* A session that played a chunk was stopped: Idle -> Playing -> Idle.
C3_Witness ==
    \E c \in Callers :
        /\ Answered(c, "stopPlaying", "True")
        /\ ~playing
        /\ playThread # NoThread
        /\ tstate[playThread] = "dead"
        /\ ppos[playThread] = 1

\* C4: saveCurr(name) fails cleanly when the catalog has no curr entry or has
\* a name entry already.  Otherwise it goes on and answers True with the asset
\* file of name a copy of the working take, the entry of name equal to the curr
\* entry, and the document rewritten; no step of the call changes another
\* entry, another asset file or the working take, and the curr entry and the
\* working take stay what they were at the call for as long as it runs.
C4_SaveCurr ==
    [][\A c \in Callers :
        /\ CheckStep(c, "saveCurr") =>
              IF ~InTable("curr") \/ InTable(arg[c])
              THEN FailsClean(c) ELSE pc'[c] = "sv_copy"
        /\ CallStep(c, "saveCurr") =>
              /\ \A k \in Keys \ {arg[c]} : table'[k] = table[k]
              /\ \A n \in SaveNames \ {arg[c]} : saved'[n] = saved[n]
        /\ pc[c] \notin {"idle", "done"} /\ op[c] = "saveCurr" =>
              /\ table'["curr"] = table["curr"]
              /\ currFile' = currFile
        /\ ReturnStep(c, "saveCurr") /\ pc[c] # "called" =>
              /\ ret'[c] = "True"
              /\ saved'[arg[c]] = currFile /\ Readable(currFile)
              /\ table'[arg[c]] = table["curr"] /\ table'[arg[c]].present
              /\ doc' = table'
    ]_vars

\* A take saved as "a" beside an entry of another name.
C4_Witness ==
    \E c \in Callers :
        /\ Answered(c, "saveCurr", "True")
        /\ arg[c] = "a"
        /\ table["a"] = table["curr"]
        /\ saved["a"] = currFile
        /\ table[ExtPath].present
        /\ table[ExtPath] # table["a"]

\* C5: setAsCurr(name) with name taken as a catalog key (name is no .wav file
\* path).  For a stored name the call goes on and answers True with the working
\* take a copy of the asset of name and the curr entry equal to the entry of
\* name; for the key curr itself the working take and the curr entry are left
\* as they are.  No step of the call changes a named entry or a stored asset.
C5_SetAsCurrName ==
    [][\A c \in Callers :
        /\ CheckStep(c, "setAsCurr") /\ ~IsWavPath(arg[c]) /\ InTable(arg[c]) =>
              pc'[c] = "sc_nopen"
        /\ CallStep(c, "setAsCurr") /\ ~IsWavPath(arg[c]) =>
              /\ \A n \in SaveNames : table'[n] = table[n] /\ saved'[n] = saved[n]
        /\ ReturnStep(c, "setAsCurr") /\ pc[c] # "called" /\ ~IsWavPath(arg[c]) =>
              IF arg[c] \in SaveNames
              THEN /\ ret'[c] = "True"
                   /\ currFile' = saved'[arg[c]]
                   /\ table'["curr"] = table'[arg[c]]
                   /\ table'[arg[c]].present
                   /\ doc' = table'
              ELSE /\ currFile' = currFile
                   /\ table' = table
    ]_vars

\* The working take was another take before: "a" differs from the other entry.
C5_Witness ==
    \E c \in Callers :
        /\ Answered(c, "setAsCurr", "True")
        /\ arg[c] = "a"
        /\ table["curr"] = table["a"]
        /\ currFile = saved["a"]
        /\ table[ExtPath].present
        /\ table[ExtPath] # table["a"]

\* C6: setAsCurr(identifier) answers True for every identifier that is an
\* existing .wav path or a key of the catalog (curr included), and fails
\* cleanly exactly when it is neither; it never ends in an error.
C6_SetAsCurrResolves ==
    [][\A c \in Callers :
        /\ CheckStep(c, "setAsCurr") =>
              IF IsWavPath(arg[c]) \/ InTable(arg[c])
              THEN pc'[c] # "done" ELSE FailsClean(c)
        /\ ReturnStep(c, "setAsCurr") /\ pc[c] # "called" => ret'[c] = "True"
    ]_vars

\* The content of the file at an existing .wav path.
PathContent(n) == IF n = CurrPath THEN currFile ELSE ExtFile

\* C7: setAsCurr(identifier) with identifier an existing .wav path takes the
\* path branch even when the identifier is a catalog key too; when the call
\* ends the working take holds the content of that file and the curr entry is
\* the size and frames / rate of the working take; for a path other than the
\* working take itself the answer is True and the document is rewritten.  No
\* step of the call changes a named entry or a stored asset.
C7_SetAsCurrPath ==
    [][\A c \in Callers :
        /\ CheckStep(c, "setAsCurr") /\ IsWavPath(arg[c]) => pc'[c] = "sc_popen"
        /\ CallStep(c, "setAsCurr") /\ IsWavPath(arg[c]) =>
              /\ \A n \in SaveNames : table'[n] = table[n] /\ saved'[n] = saved[n]
        /\ ReturnStep(c, "setAsCurr") /\ pc[c] # "called" /\ IsWavPath(arg[c]) =>
              /\ currFile' = PathContent(arg[c])
              /\ table'["curr"] =
                    [present |-> TRUE, size |-> currFile'.size,
                     time |-> Div(currFile'.frames, currFile'.rate)]
              /\ arg[c] # CurrPath => ret'[c] = "True" /\ doc' = table'
    ]_vars

\* The path is a catalog key as well, with an entry other than the file's.
C7_Witness ==
    \E c \in Callers :
        /\ Answered(c, "setAsCurr", "True")
        /\ arg[c] = ExtPath
        /\ table[ExtPath].present
        /\ table[ExtPath] # FileMeta(ExtFile)
        /\ currFile = ExtFile
        /\ table["curr"] = [present |-> TRUE, size |-> 6044, time |-> <<10, 147>>]

\* C8: delete("curr") fails cleanly in every state: it answers False and
\* removes neither the working take nor the curr entry.
C8_DeleteCurr ==
    [][\A c \in Callers :
        CheckStep(c, "delete") /\ arg[c] = "curr" => FailsClean(c)]_vars

C8_Witness ==
    \E c \in Callers :
        /\ Answered(c, "delete", "False")
        /\ arg[c] = "curr"
        /\ table["curr"].present
        /\ Readable(currFile)

\* C9: delete(name), name not curr: absent from the catalog it fails cleanly;
\* present it goes on and answers True with the entry and the asset file of
\* name gone and the document rewritten.  No step of the call changes another
\* entry (curr included), another asset file or the working take.
C9_DeleteName ==
    [][\A c \in Callers :
        /\ CheckStep(c, "delete") /\ arg[c] # "curr" =>
              IF ~InTable(arg[c]) THEN FailsClean(c) ELSE pc'[c] = "dl_remove"
        /\ CallStep(c, "delete") =>
              /\ \A k \in Keys \ {arg[c]} : table'[k] = table[k]
              /\ \A n \in SaveNames \ {arg[c]} : saved'[n] = saved[n]
              /\ currFile' = currFile
        /\ ReturnStep(c, "delete") /\ pc[c] # "called" =>
              /\ ret'[c] = "True"
              /\ ~table'[arg[c]].present
              /\ saved'[arg[c]] = NoFile
              /\ doc' = table'
    ]_vars

\* "a" deleted after the working take was set from it; the other name stays.
C9_Witness ==
    \E c \in Callers :
        /\ Answered(c, "delete", "True")
        /\ arg[c] = "a"
        /\ ~table["a"].present
        /\ saved["a"] = NoFile
        /\ table["curr"].present
        /\ currFile = WavFile(1)
        /\ table[ExtPath].present
        /\ saved[ExtPath] = ExtFile

\* C10: when stopRecording has answered True the controller is Idle, no
\* recording worker is alive and the session's worker has exited, the working
\* take holds the frames it captured, and the curr entry computed from that
\* file is in the catalog and in the document.
C10_StopRecordingSynchronous ==
    \A c \in Callers :
        Answered(c, "stopRecording", "True") =>
            /\ ~recording
            /\ \A t \in RThreads : ~Alive(tstate, t)
            /\ recordThread # NoThread
            /\ tstate[recordThread] = "dead"
            /\ lock \notin RThreads
            /\ currFile = WavFile(frames[recordThread])
            /\ table["curr"] = FileMeta(currFile)
            /\ doc = table

C10_Witness ==
    \E c \in Callers :
        /\ Answered(c, "stopRecording", "True")
        /\ frames[recordThread] = 1
        /\ currFile = WavFile(1)

\* C11: when stopRecording has answered True for a session whose worker
\* captured k chunks, curr.wav holds k * 1024 frames of mono 16-bit PCM at
\* 44100 Hz behind its header, and the curr entry has time = k * 1024 / 44100
\* and size = the byte length of that file.
C11_TakeMetadata ==
    \A c \in Callers :
        Answered(c, "stopRecording", "True") =>
            LET k == frames[recordThread] IN
            /\ currFile.kind = "wav"
            /\ currFile.rate = 44100
            /\ currFile.frames = k * 1024
            /\ currFile.size = 44 + 2 * currFile.frames
            /\ table["curr"].present
            /\ table["curr"].time = Div(k * 1024, 44100)
            /\ table["curr"].size = currFile.size

C11_Witness ==
    \E c \in Callers :
        /\ Answered(c, "stopRecording", "True")
        /\ frames[recordThread] = 1
        /\ table["curr"].size = 2092
        /\ table["curr"].time = <<256, 11025>>

\* Every call has returned.
Quiescent == \A c \in Callers : pc[c] \in {"idle", "done"}

\* C12: whenever no tool call is in progress and the catalog has a curr
\* entry, curr.wav is a complete audio file and the entry's size and time are
\* the byte size and the frames / frame rate of that file.
C12_CurrEntryMatchesFile ==
    (Quiescent /\ table["curr"].present) =>
        /\ Readable(currFile)
        /\ table["curr"].size = currFile.size
        /\ table["curr"].time = Div(currFile.frames, currFile.rate)

\* C13: in every state the tool operations produce (each call has returned),
\* for every name other than curr the catalog has an entry for the name if
\* and only if the asset file recordings/<name>.wav exists.
C13_EntryIffAsset ==
    Quiescent =>
        \A n \in SaveNames : table[n].present <=> saved[n].kind # "none"

C13_Witness ==
    /\ Answered("c1", "delete", "True")
    /\ arg["c1"] = ExtPath
    /\ ~table[ExtPath].present
    /\ saved[ExtPath] = NoFile
    /\ table["a"].present
    /\ saved["a"].kind = "wav"

\* C14: when two clients have each called startRecording once on the Idle
\* controller and both calls have returned, one of them answered True and the
\* other answered False.
C14_ExactlyOneStarts ==
    (\A c \in Callers : pc[c] = "done" /\ op[c] = "startRecording") =>
        \E c \in Callers :
            /\ ret[c] = "True"
            /\ \A d \in Callers \ {c} : ret[d] = "False"

\* C15: when two clients have sent the same call of a tool that tests the
\* state (startRecording, stopRecording, startPlaying, stopPlaying,
\* saveCurr(name), delete(name)) at the same time and both calls have
\* returned, at most one answered True and neither ended in an error.
C15_AtMostOneSucceeds ==
    (\A c \in Callers : pc[c] = "done" /\ op[c] \in CheckedOps) =>
        /\ \A c \in Callers : ret[c] \in {"True", "False"}
        /\ \A c, d \in Callers : (c # d /\ ret[c] = "True") => ret[d] = "False"

\* The entry of a take of k captured chunks.
TakeEntry(k) == [present |-> TRUE, size |-> 44 + 2 * (k * 1024), time |-> Div(k * 1024, 44100)]
\* The catalog is {curr: e} and, when x is an entry, {curr: e, n: x}.
CatalogIs(e, n, x) ==
    table = [k \in Keys |-> IF k = "curr" THEN e ELSE IF k = n THEN x ELSE NoEntry]

\* C16: in the session start, stop, saveCurr(take1), delete(take1) on an empty
\* catalog: startRecording answers True; stopRecording answers True and the
\* catalog is exactly {curr: m}, m being the entry of the captured audio;
\* saveCurr answers True and the catalog is {curr: m, take1: m}; delete
\* answers True and the catalog is {curr: m} again; curr is m at every step
\* of the last two calls.
C16_EndToEnd ==
    LET c == "c1"
        m == TakeEntry(frames[recordThread])
    IN  /\ (pc[c] = "done" /\ op[c] = "startRecording") => ret[c] = "True"
        /\ (pc[c] = "done" /\ op[c] = "stopRecording") =>
                ret[c] = "True" /\ CatalogIs(m, arg[c], NoEntry)
        /\ op[c] \in {"saveCurr", "delete"} => table["curr"] = m
        /\ (pc[c] = "done" /\ op[c] = "saveCurr") =>
                ret[c] = "True" /\ CatalogIs(m, arg[c], m)
        /\ (pc[c] = "done" /\ op[c] = "delete") =>
                ret[c] = "True" /\ CatalogIs(m, arg[c], NoEntry)

C16_Witness ==
    /\ Answered("c1", "delete", "True")
    /\ frames[recordThread] = 1
    /\ arg["c1"] = "a"
    /\ CatalogIs(TakeEntry(1), "a", NoEntry)
    /\ doc = table

\* The call caller c has sent violates the precondition of its tool.
Violates(c) ==
    \/ op[c] = "startRecording" /\ recording
    \/ op[c] = "stopRecording" /\ ~recording
    \/ op[c] = "startPlaying" /\ playing
    \/ op[c] = "stopPlaying" /\ ~playing
    \/ op[c] = "saveCurr" /\ (InTable(arg[c]) \/ ~InTable("curr"))
    \/ op[c] = "setAsCurr" /\ ~IsWavPath(arg[c]) /\ ~InTable(arg[c])
    \/ op[c] = "delete" /\ (arg[c] = "curr" \/ ~InTable(arg[c]))

\* C17: a call that violates its precondition (start while active, stop while
\* idle, saveCurr on a name in use or without a curr entry, setAsCurr or
\* delete of an unknown name, delete of curr) returns False in its first step,
\* raises nothing, and leaves the flags, the thread handles and threads, the
\* lock, the catalog, the document and every file as they were.
C17_ViolationsFailClean ==
    [][\A c \in Callers :
        (pc[c] = "called" /\ pc'[c] # "called" /\ Violates(c)) =>
            /\ pc'[c] = "done"
            /\ ret'[c] = "False"
            /\ recording' = recording /\ playing' = playing
            /\ recordThread' = recordThread /\ playThread' = playThread
            /\ tstate' = tstate /\ lock' = lock
            /\ table' = table /\ doc' = doc
            /\ currFile' = currFile /\ saved' = saved
    ]_vars

\* setAsCurr of an unknown name, refused in the middle of a recording session
\* on a store that holds a take.
C17_Witness ==
    \E c \in Callers :
        /\ Answered(c, "setAsCurr", "False")
        /\ arg[c] = "a"
        /\ ~table["a"].present
        /\ recording
        /\ table["curr"].present

\* C18: start() on an empty or a missing table.yaml gives the empty catalog
\* and the service serves; on a table.yaml that is no YAML the process ends
\* at startup, and a process that ended at startup serves no call.
C18_Startup ==
    [][/\ (svc \in {"empty", "missing"} /\ svc' # svc) =>
            /\ svc' = "serving"
            /\ table' = [k \in Keys |-> NoEntry]
       /\ (svc = "invalid" /\ svc' # svc) => svc' = "crashed"
       /\ svc' = "crashed" => \A c \in Callers : pc'[c] = "idle"
    ]_vars

\* C19: a stopRecording that has waited for a worker ended by a failed read
\* or a failed file write does not answer True, and a saveCurr, setAsCurr or
\* delete whose copy or remove step ends the call answers with an error, not
\* with True.
C19_FailuresSurfaced ==
    [][\A c \in Callers :
        /\ (ReturnStep(c, "stopRecording") /\ pc[c] = "st_wait"
              /\ tstate[jt[c]] = "failed") => ret'[c] # "True"
        /\ (pc[c] \in StorageSteps /\ pc'[c] = "done") => ret'[c] = "Error"
    ]_vars

\* The operations that are said never to wait.
NonBlockingOps ==
    {"startRecording", "startPlaying", "saveCurr", "setAsCurr", "delete"} \cup Resources

C21_PlayWithoutTake ==
    [][currFile.kind = "none" =>
        /\ \A c \in Callers :
            /\ (CheckStep(c, "startPlaying") /\ ~playing) => pc'[c] = "sp_new"
            /\ (ReturnStep(c, "startPlaying") /\ pc[c] # "called") => ret'[c] = "True"
            /\ (CheckStep(c, "stopPlaying") /\ playing) => pc'[c] = "pt_flag"
            /\ (ReturnStep(c, "stopPlaying") /\ pc[c] # "called") =>
                  /\ ret'[c] = "True"
                  /\ ~playing'
                  /\ \A t \in PThreads : ~Alive(tstate', t)
        /\ \A t \in PThreads :
            /\ (tstate[t] = "open" /\ tstate'[t] # "open") =>
                  /\ ~Alive(tstate', t)
                  /\ lock' = "free"
            /\ ppos'[t] = 0
            /\ tstate'[t] # "wr"
    ]_vars

\* A playback session on an empty store, started and stopped.
C21_Witness ==
    \E c \in Callers :
        /\ Answered(c, "stopPlaying", "True")
        /\ currFile = NoFile
        /\ ~playing
        /\ playThread # NoThread
        /\ tstate[playThread] = "failed"
        /\ lock = "free"

MutatingOps == {"stopRecording", "saveCurr", "setAsCurr", "delete"}

\* C22: when stopRecording, saveCurr, setAsCurr or delete returns True, the
\* table last dumped to table.yaml is the table in memory (what the catalog
\* resource returns) and loading the dumped text gives that table back; a
\* call that does not return True does not write the document in its
\* returning step, and the document changes only in the dump that ends a
\* successful call or ends the recording worker.
C22_DocumentFollowsTable ==
    [][/\ \A c \in Callers :
            /\ (ReturnStep(c, op[c]) /\ op[c] \in MutatingOps /\ ret'[c] = "True") =>
                  /\ doc' = table'
                  /\ YamlLoad(YamlDump(doc')) = table'
            /\ (ReturnStep(c, op[c]) /\ ret'[c] # "True") => doc' = doc
       /\ doc' # doc =>
            /\ doc' = table'
            /\ \/ \E c \in Callers :
                    ReturnStep(c, op[c]) /\ op[c] \in MutatingOps /\ ret'[c] = "True"
               \/ \E t \in RThreads : tstate[t] = "dump"
    ]_vars

\* A delete has returned True and the document holds the two entries left.
C22_Witness ==
    \E c \in Callers :
        /\ Answered(c, "delete", "True")
        /\ arg[c] = "a"
        /\ doc = table
        /\ {e.key : e \in YamlDump(doc)} = {"curr", ExtPath}

\* C23: in every state at most one recording worker thread and at most one
\* playback worker thread is alive, whatever start and stop calls the
\* clients have in progress.
C23_OneWorkerEach ==
    /\ Cardinality({t \in RThreads : Alive(tstate, t)}) <= 1
    /\ Cardinality({t \in PThreads : Alive(tstate, t)}) <= 1

\* C24: the accesses to curr.wav exclude each other: saveCurr never copies
\* curr.wav while another thread holds the lock on it, so no saved take is a
\* copy of a partially written curr.wav, and curr.wav is never opened for
\* writing by a caller while a worker holds the lock.
C24_FileAccessUnderLock ==
    [][\A c \in Callers :
          /\ (pc[c] = "sv_copy" /\ pc'[c] # "sv_copy")
                => lock = "free" /\ saved'[arg[c]] # Partial
          /\ (pc[c] \in {"sc_popen", "sc_nopen"} /\ currFile' # currFile)
                => lock = "free"]_vars

\* The positions of a tool between its file update and the dump of the table.
InUpdate == {"sv_table", "sv_dump", "sc_pfill", "sc_pmeta", "sc_nfill",
             "sc_nmeta", "sc_dump", "dl_table", "dl_dump"}

\* C25: the table and table.yaml are changed only under the lock: a tool
\* changes them only when no worker holds the lock, and while a tool is
\* between its file update and its dump of the table no other thread changes
\* the table, table.yaml or an asset file.
C25_CatalogUnderLock ==
    [][\A c \in Callers :
          /\ (pc'[c] # pc[c] /\ (table' # table \/ doc' # doc)) => lock = "free"
          /\ (pc[c] \in InUpdate /\ pc'[c] = pc[c])
                => /\ table' = table /\ doc' = doc
                   /\ currFile' = currFile /\ saved' = saved]_vars

\* A record thread that has not yet written its take to curr.wav.
BeforeFinalWrite(t) == tstate[t] \in {"check", "read", "lock", "trunc", "fill"}

\* C26: a playback worker whose startPlaying was called during a recording
\* session opens curr.wav only after the record worker of that session has
\* written the take to it.
C26_PlaysNewTake ==
    [][\A t \in PThreads :
          (tstate[t] = "open" /\ tstate'[t] # "open")
             => \A r \in RThreads : ~BeforeFinalWrite(r)]_vars

\* C27: the playback worker does not hold the lock between two chunk reads:
\* while it writes a chunk to the device, a record worker that waits for the
\* lock for its final write is not kept waiting by it.
C27_LockFreeBetweenChunks ==
    \A t \in PThreads : \A r \in RThreads :
        (tstate[t] = "wr" /\ tstate[r] = "lock") => lock # t

\* C28: the workers see a cleared flag only between chunks.  A record worker
\* that is reading a chunk finishes the read and keeps the chunk whatever the
\* flag is, and the take it writes holds exactly the chunks it read, a whole
\* number of 1024-frame chunks.  A playback worker that is writing a chunk
\* finishes the write, and with the flag cleared its next test ends it
\* without another chunk.
C28_StopBetweenChunks ==
    [][/\ \A t \in RThreads :
            /\ (tstate[t] = "read" /\ tstate'[t] # "read")
                  => tstate'[t] = "check" /\ frames'[t] = frames[t] + 1
            /\ (tstate[t] = "fill" /\ tstate'[t] # "fill")
                  => /\ currFile'.kind = "wav"
                     /\ currFile'.frames = 1024 * frames[t]
                     /\ currFile'.frames % 1024 = 0
            /\ (tstate[t] \in {"lock", "trunc", "fill"}) => frames'[t] = frames[t]
       /\ \A t \in PThreads :
            /\ (tstate[t] = "wr" /\ tstate'[t] # "wr")
                  => tstate'[t] = "rd" /\ ppos'[t] = ppos[t]
            /\ (~playing /\ tstate[t] = "rd" /\ tstate'[t] # "rd")
                  => ~Alive(tstate', t) /\ tstate'[t] # "wr"]_vars

\* stopPlaying has cleared the flag while the playback worker is writing the
\* one chunk of a recorded take to the device.
C28_Witness ==
    /\ ~playing
    /\ playThread # NoThread
    /\ tstate[playThread] = "wr"
    /\ ppos[playThread] = 1
    /\ currFile = WavFile(1)
    /\ table["curr"].present

\* A step of client c inside a call of tool o.
ToolStep(c, o) == op[c] = o /\ pc[c] # pc'[c] /\ pc[c] \notin {"idle", "done"}

\* A step of the record worker while a stopRecording call waits for it.
StopCompletes ==
    \E t \in RThreads : \E c \in Callers :
        /\ tstate[t] # tstate'[t]
        /\ op[c] = "stopRecording" /\ pc[c] \in {"st_join", "st_wait"}

\* The tools and resources that touch neither the catalog nor a file.
ReadOnlyOps == {"startRecording", "startPlaying", "stopPlaying"} \cup Resources

\* C29: the curr entry changes only while a stopRecording completes or in a
\* setAsCurr that goes on to return True; a named entry appears only in a
\* saveCurr of that name that returns True, disappears only in a delete of that
\* name that returns True, and never changes otherwise; startRecording,
\* startPlaying, stopPlaying, the resource reads, the playback worker and
\* every call that does not return True leave the table, table.yaml and all
\* files as they were; saveCurr, setAsCurr and delete leave both flags as they
\* were.
C29_FrameConditions ==
    [][/\ table'["curr"] # table["curr"]
            => \/ StopCompletes
               \/ \E c \in Callers : ToolStep(c, "setAsCurr") /\ pc'[c] = "sc_dump"
       /\ \A n \in SaveNames :
            table'[n] # table[n]
               => \/ /\ ~table[n].present /\ table'[n].present
                     /\ \E c \in Callers :
                           ToolStep(c, "saveCurr") /\ arg[c] = n /\ pc'[c] = "sv_dump"
                  \/ /\ table[n].present /\ ~table'[n].present
                     /\ \E c \in Callers :
                           ToolStep(c, "delete") /\ arg[c] = n /\ pc'[c] = "dl_dump"
       /\ \A c \in Callers :
            /\ (\E o \in ReadOnlyOps : op'[c] = o /\ pc'[c] # pc[c])
                  => UNCHANGED store
            /\ (pc[c] # "done" /\ pc'[c] = "done" /\ ret'[c] # "True")
                  => UNCHANGED store /\ pc[c] \notin InUpdate
            /\ (\E o \in CatalogOps : op'[c] = o /\ pc'[c] # pc[c])
                  => recording' = recording /\ playing' = playing
       /\ (\E t \in PThreads : tstate'[t] # tstate[t] /\ tstate[t] \in {"plock", "open", "rd", "wr"})
            => UNCHANGED store
       /\ (store' # store)
            => \/ StopCompletes
               \/ \E c \in Callers : \E o \in CatalogOps : ToolStep(c, o)]_vars

\* saveCurr has returned True in the middle of a recording session and a
\* playback session: the name has its entry, the curr entry is the one of the
\* take recorded before, both flags are still set.
C29_Witness ==
    /\ Answered("c1", "saveCurr", "True")
    /\ arg["c1"] = "a"
    /\ recording /\ playing
    /\ table["a"].present
    /\ table["curr"] = FileMeta(WavFile(1))

\* What a call of a start tool (o) and of a stop tool answers and does, given
\* the value f of its own flag before the call's test and f2 after the step.
SessionRule(c, start, stop, f, f2, first, last) ==
    /\ CheckStep(c, start)
          => IF f THEN ret'[c] = "False" /\ pc'[c] = "done" /\ UNCHANGED <<ctl, wrk, store>>
                  ELSE pc'[c] = first
    /\ CheckStep(c, stop)
          => IF ~f THEN ret'[c] = "False" /\ pc'[c] = "done" /\ UNCHANGED <<ctl, wrk, store>>
                   ELSE pc'[c] = last
    /\ (ReturnStep(c, start) /\ pc[c] # "called") => ret'[c] = "True" /\ f2
    /\ (ReturnStep(c, stop) /\ pc[c] # "called") => ret'[c] = "True" /\ ~f2

SomeoneWaits ==
    \/ \E c \in Callers : pc[c] \in {"st_wait", "pt_wait"}
    \/ \E t \in Threads : tstate[t] \in {"lock", "plock"}

SelfFinished ==
    playing /\ playThread # NoThread /\ Exited(tstate, playThread)

\* C32: the end of the playback worker leaves the playing flag as it is; the
\* flag is cleared by stopPlaying only; while the worker has ended with the
\* flag set, startPlaying answers False and changes nothing, and stopPlaying
\* goes on, finds the worker ended at join() and answers True.
C32_SelfFinishedStaysPlaying ==
    /\ [][/\ \A t \in PThreads :
               (~Exited(tstate, t) /\ Exited(tstate', t)) => playing' = playing
          /\ (playing /\ ~playing')
               => \E c \in Callers : op[c] = "stopPlaying" /\ pc[c] = "pt_flag"
          /\ SelfFinished
               => \A c \in Callers :
                     /\ CheckStep(c, "startPlaying")
                           => ret'[c] = "False" /\ UNCHANGED <<ctl, wrk, store>>
                     /\ CheckStep(c, "stopPlaying") => pc'[c] = "pt_flag"
          /\ \A c \in Callers :
               (op[c] = "stopPlaying" /\ pc[c] = "pt_wait" /\ pc'[c] # "pt_wait")
                  => ret'[c] = "True" /\ ~playing']_vars
    /\ [](\A c \in Callers :
            (op[c] = "stopPlaying" /\ pc[c] = "pt_wait" /\ Exited(tstate, jt[c]))
               => ENABLED PT_Wait(c))

\* The playback of a one-chunk take has ended by itself and a second
\* startPlaying has been answered False.
C32_Witness ==
    /\ Answered("c1", "startPlaying", "False")
    /\ SelfFinished
    /\ tstate[playThread] = "dead"
    /\ ppos[playThread] = 1

\* C33: once a name has its entry, the entry and the file of the name stay as
\* they are through every step of a recording, of the record worker, of
\* setAsCurr and of every other call, until a delete of that name.
C33_NamedSnapshot ==
    [][\A n \in SaveNames :
          (table[n].present /\ ~(\E c \in Callers : ToolStep(c, "delete") /\ arg[c] = n))
             => table'[n] = table[n] /\ saved'[n] = saved[n]]_vars

\* A one-chunk take was saved as "a"; a later recording of no chunk has
\* replaced curr; the entry and the file of "a" are those of the saved take.
C33_Witness ==
    /\ Answered("c1", "stopRecording", "True")
    /\ table["a"] = FileMeta(WavFile(1))
    /\ saved["a"] = WavFile(1)
    /\ table["curr"] = FileMeta(WavFile(0))
    /\ currFile = WavFile(0)

\* Client c, answered True by tool o for x, sends its next call: tool o2 for
\* the same x.
CallsNext(c, o, o2) ==
    /\ Answered(c, o, "True")
    /\ pc'[c] = "called" /\ op'[c] = o2 /\ arg'[c] = arg[c]

\* The round trip for the names in N.  saveCurr changes neither the curr entry
\* nor curr.wav; when setAsCurr(name) is called next, the entry and the file
\* of the name are the curr entry and curr.wav; setAsCurr(name) changes
\* neither the entry nor the file of the name and answers True with the curr
\* entry and curr.wav those of the name, so that they are what they were
\* before saveCurr, and a second setAsCurr(name) ends in the same state.
RoundTrip(N) ==
    \A c \in Callers :
        /\ ToolStep(c, "saveCurr")
              => table'["curr"] = table["curr"] /\ currFile' = currFile
        /\ (CallsNext(c, "saveCurr", "setAsCurr") /\ arg[c] \in N)
              => /\ table[arg[c]] = table["curr"] /\ table["curr"].present
                 /\ saved[arg[c]] = currFile /\ Readable(currFile)
        /\ (ToolStep(c, "setAsCurr") /\ arg[c] \in N)
              => table'[arg[c]] = table[arg[c]] /\ saved'[arg[c]] = saved[arg[c]]
        /\ (ReturnStep(c, "setAsCurr") /\ arg[c] \in N /\ table[arg[c]].present)
              => /\ ret'[c] = "True"
                 /\ table'["curr"] = table[arg[c]]
                 /\ currFile' = saved[arg[c]]
                 /\ doc' = table'
        /\ (CallsNext(c, "setAsCurr", "setAsCurr") /\ arg[c] \in N
                /\ table[arg[c]].present)
              => /\ table["curr"] = table[arg[c]]
                 /\ currFile = saved[arg[c]]
                 /\ doc = table

\* C34: saveCurr(name) and then setAsCurr(name) answer True twice and leave
\* the curr entry and curr.wav as they were before saveCurr, and a second
\* setAsCurr(name) changes nothing, for every name that had no entry.
C34_RoundTrip == [][RoundTrip(SaveNames)]_vars

\* C34, amended: the same for every name that is not the path of an existing
\* .wav file.
C34_RoundTripOfNames == [][RoundTrip({n \in SaveNames : ~IsWavPath(n)})]_vars

\* setAsCurr("a") has answered True on a catalog whose entry of "a" was saved
\* from the take of the external file: curr is that take again although the
\* file on disk is a recording of one chunk no longer.
C34_Witness ==
    /\ Answered("c1", "setAsCurr", "True")
    /\ arg["c1"] = "a"
    /\ table["a"] = FileMeta(ExtFile)
    /\ table["curr"] = table["a"]
    /\ currFile = saved["a"]
    /\ currFile = ExtFile
    /\ doc = table

\* C35: when stopRecording has answered True for a session whose worker
\* captured no chunk, curr.wav is a complete WAV file of its 44-byte header
\* and no frame, whatever it held before, and the curr entry has time 0 and
\* the size of that file; table.yaml holds the table.
C35_EmptyTake ==
    \A c \in Callers :
        (Answered(c, "stopRecording", "True") /\ frames[recordThread] = 0)
           => /\ Readable(currFile)
              /\ currFile.frames = 0
              /\ currFile.size = 44
              /\ currFile.rate = 44100
              /\ table["curr"].present
              /\ table["curr"].time = <<0, 1>>
              /\ table["curr"].size = currFile.size
              /\ doc = table

\* A one-chunk take was recorded and saved as "a"; the next session was
\* stopped before its first chunk and has replaced the take by an empty one.
C35_Witness ==
    /\ Answered("c1", "stopRecording", "True")
    /\ frames[recordThread] = 0
    /\ saved["a"] = WavFile(1)
    /\ currFile = WavFile(0)
    /\ table["curr"] = FileMeta(WavFile(0))

\* A call whose argument is the path of an existing .wav file is in progress.
PathCall == \E c \in Callers : pc[c] \notin {"idle", "done"} /\ IsWavPath(arg[c])

\* C36: driven by one caller through startRecording, stopRecording, saveCurr,
\* delete and setAsCurr of a catalog name, every step MusicMCP.py takes is the
\* step MusicServer.py takes from the same state: the same answer, the same
\* table, table.yaml and files.
C36_VariantsAgree == [][MS_Step]_vars

\* C36, amended: the same for every call whose name is not the path of an
\* existing .wav file.
C36_VariantsAgreeOnNames == [][PathCall \/ MS_Step]_vars

\* A take of one chunk was recorded and saved as "a", a second, empty take
\* replaced it, and setAsCurr("a") has brought the first one back.
C36_Witness ==
    /\ Answered("c1", "setAsCurr", "True")
    /\ arg["c1"] = "a"
    /\ recordThread # NoThread
    /\ frames[recordThread] = 0
    /\ currFile = WavFile(1)
    /\ table["curr"] = FileMeta(WavFile(1))
    /\ table["a"] = table["curr"]
    /\ doc = table

====
